---- MODULE Spec2Model ----
(***************************************************************************)
(* Model of the job-pulse pipeline: identity (app/core/ids.py), the        *)
(* SQLite persistence layer (app/storage/sqlite_store.py), the freshness   *)
(* filter, the tagger, the normalizers and the batch run of app/main.py.   *)
(*                                                                         *)
(* Conventions                                                             *)
(*  - A Python str is a sequence of lexemes (short strings): punctuation   *)
(*    is one lexeme per character ("/", "?", "&", "=", "#", ":", ";", "|", *)
(*    " "), a word is one lexeme.  str.lower() maps each lexeme through    *)
(*    LowerLex, str.strip() drops leading and trailing " " lexemes.        *)
(*  - An Optional value is a sequence of length at most one: None is <<>>, *)
(*    a present value x is <<x>>.  SQL NULL is None as well.               *)
(*  - A datetime is [utc |-> instant, off |-> offset]; instants and        *)
(*    offsets count hours.  Its ISO text is [wall, off]: the wall-clock    *)
(*    digits followed by the offset suffix.                                *)
(***************************************************************************)
EXTENDS Integers, Sequences, FiniteSets, TLC

VARIABLES
    table,      \* committed rows of the jobs table
    now,        \* wall clock (UTC instant)
    lastCall,   \* what the last finished operation was given and returned
    ever,       \* job_ids written by upsert calls that returned normally
    conn,       \* per connection: the state of a running upsert_jobs call
    wlock,      \* the connection holding the database write lock, or 0
    dd          \* input and output of a deduplicate_jobs call

vars == <<table, now, lastCall, ever, conn, wlock, dd>>

-----------------------------------------------------------------------------
(* Optional values *)

None == <<>>

Some(x) == <<x>>

\* Python truthiness of an Optional[str]: None and "" are falsy
TruthyStr(o) == o # None /\ o[1] # <<>>

-----------------------------------------------------------------------------
(* Strings *)

\* str.lower() on one lexeme
LowerLex(c) ==
    CASE c = "Google"   -> "google"
      [] c = "Engineer" -> "engineer"
      [] c = "Manager"  -> "manager"
      [] c = "Remote"   -> "remote"
      [] c = "X.com"    -> "x.com"
      [] c = "HTTPS"    -> "https"
      [] c = "Ref"      -> "ref"
      [] c = "UTM_x"    -> "utm_x"
      [] c = "Python"   -> "python"
      [] OTHER          -> c

lower(s) == [i \in DOMAIN s |-> LowerLex(s[i])]

RECURSIVE lstrip(_)
lstrip(s) == IF s # <<>> /\ Head(s) = " " THEN lstrip(Tail(s)) ELSE s

RECURSIVE rstrip(_, _)
rstrip(s, c) ==
    IF s # <<>> /\ s[Len(s)] = c THEN rstrip(SubSeq(s, 1, Len(s) - 1), c) ELSE s

strip(s) == rstrip(lstrip(s), " ")

\* s.find(c, from): least index >= from holding c, 0 when there is none
\* (indices are 1-based; Python's -1 is 0 here)
RECURSIVE find(_, _, _)
find(s, c, from) ==
    IF from > Len(s) THEN 0
    ELSE IF s[from] = c THEN from
    ELSE find(s, c, from + 1)

\* s.rfind(c): greatest index holding c, 0 when there is none
RECURSIVE rfind(_, _, _)
rfind(s, c, upto) ==
    IF upto < 1 THEN 0
    ELSE IF s[upto] = c THEN upto
    ELSE rfind(s, c, upto - 1)

\* sub in s, for a sub of one or several lexemes
RECURSIVE contains(_, _)
contains(s, sub) ==
    IF Len(sub) > Len(s) THEN FALSE
    ELSE IF SubSeq(s, 1, Len(sub)) = sub THEN TRUE
    ELSE contains(Tail(s), sub)

\* s.split(sep): the list of pieces between occurrences of the lexeme sep
RECURSIVE split(_, _)
split(s, sep) ==
    LET i == find(s, sep, 1) IN
    IF i = 0 THEN <<s>>
    ELSE <<SubSeq(s, 1, i - 1)>> \o split(SubSeq(s, i + 1, Len(s)), sep)

\* sep.join(parts)
RECURSIVE join(_, _)
join(parts, sep) ==
    IF parts = <<>> THEN <<>>
    ELSE IF Len(parts) = 1 THEN parts[1]
    ELSE parts[1] \o <<sep>> \o join(Tail(parts), sep)

-----------------------------------------------------------------------------
(* Datetimes and their ISO text *)

Datetime(t, o) == [utc |-> t, off |-> o]

UtcDatetime(t) == Datetime(t, 0)

\* datetime.isoformat(): wall-clock digits in the datetime's own offset,
\* followed by the offset
isoformat(d) == [wall |-> d.utc + d.off, off |-> d.off]

\* datetime.fromisoformat(text)
fromisoformat(s) == Datetime(s.wall - s.off, s.off)

\* d.astimezone(timezone.utc)
astimezone_utc(d) == Datetime(d.utc, 0)

\* comparison and equality of two aware datetimes are by instant
DtGreater(a, b) == a.utc > b.utc

DtEqual(a, b) == a.utc = b.utc

-----------------------------------------------------------------------------
(* urllib.parse, as far as canonicalize_url uses it *)

\* word lexemes that begin with a letter and hold only scheme characters
\* (letters, digits, "+", "-", ".")
SchemeWords ==
    {"https", "HTTPS", "http", "x.com", "X.com", "jobs", "id", "li", "f",
     "ref", "Ref"}

\* word lexemes that hold only digits
DigitWords == {"1", "2"}

IsSchemeText(s) ==
    /\ s # <<>>
    /\ s[1] \in SchemeWords
    /\ \A i \in DOMAIN s : s[i] \in SchemeWords \cup DigitWords

\* schemes for which urlparse splits path parameters / urlunsplit writes "//"
uses_params == {<<>>, <<"http">>, <<"https">>}

uses_netloc == {<<>>, <<"http">>, <<"https">>}

\* least positive of the positions in ps, or dflt when none is positive
MinPos(ps, dflt) ==
    LET pos == {p \in ps : p > 0} IN
    IF pos = {} THEN dflt ELSE CHOOSE p \in pos : \A q \in pos : p <= q

\* urlsplit: scheme, netloc, then fragment, then query; the rest is the path
urlsplit(url0) ==
    LET i      == find(url0, ":", 1)
        hasSch == i > 1 /\ IsSchemeText(SubSeq(url0, 1, i - 1))
        scheme == IF hasSch THEN lower(SubSeq(url0, 1, i - 1)) ELSE <<>>
        url1   == IF hasSch THEN SubSeq(url0, i + 1, Len(url0)) ELSE url0
        hasNet == Len(url1) >= 2 /\ url1[1] = "/" /\ url1[2] = "/"
        delim  == MinPos({find(url1, "/", 3), find(url1, "?", 3),
                          find(url1, "#", 3)}, Len(url1) + 1)
        netloc == IF hasNet THEN SubSeq(url1, 3, delim - 1) ELSE <<>>
        url2   == IF hasNet THEN SubSeq(url1, delim, Len(url1)) ELSE url1
        h      == find(url2, "#", 1)
        frag   == IF h > 0 THEN SubSeq(url2, h + 1, Len(url2)) ELSE <<>>
        url3   == IF h > 0 THEN SubSeq(url2, 1, h - 1) ELSE url2
        q      == find(url3, "?", 1)
        query  == IF q > 0 THEN SubSeq(url3, q + 1, Len(url3)) ELSE <<>>
        url4   == IF q > 0 THEN SubSeq(url3, 1, q - 1) ELSE url3
    IN  [scheme |-> scheme, netloc |-> netloc, path |-> url4,
         query |-> query, fragment |-> frag]

\* _splitparams: the parameters of the last path segment
splitparams(url) ==
    LET sl == rfind(url, "/", Len(url))
        i  == IF sl > 0 THEN find(url, ";", sl) ELSE find(url, ";", 1)
    IN  IF i = 0 THEN <<url, <<>> >>
        ELSE <<SubSeq(url, 1, i - 1), SubSeq(url, i + 1, Len(url))>>

\* urlparse, given the SplitResult sp of the URL
urlparse_of(sp) ==
    LET pp == IF sp.scheme \in uses_params /\ find(sp.path, ";", 1) > 0
              THEN splitparams(sp.path)
              ELSE <<sp.path, <<>> >>
    IN  [scheme |-> sp.scheme, netloc |-> sp.netloc, path |-> pp[1],
         params |-> pp[2], query |-> sp.query, fragment |-> sp.fragment]

urlparse(url) ==
    CHOOSE r \in {urlparse_of(sp) : sp \in {urlsplit(u) : u \in {url}}} : TRUE

urlunsplit(scheme, netloc, url, query, fragment) ==
    LET dbl  == Len(url) >= 2 /\ url[1] = "/" /\ url[2] = "/"
        u1   == IF netloc # <<>> \/ (scheme # <<>> /\ scheme \in uses_netloc /\ ~dbl)
                THEN <<"/", "/">> \o netloc
                     \o (IF url # <<>> /\ url[1] # "/" THEN <<"/">> ELSE <<>>)
                     \o url
                ELSE url
        u2   == IF scheme # <<>> THEN scheme \o <<":">> \o u1 ELSE u1
        u3   == IF query # <<>> THEN u2 \o <<"?">> \o query ELSE u2
    IN  IF fragment # <<>> THEN u3 \o <<"#">> \o fragment ELSE u3

urlunparse(scheme, netloc, url, params, query, fragment) ==
    urlunsplit(scheme, netloc,
               IF params # <<>> THEN url \o <<";">> \o params ELSE url,
               query, fragment)

\* unquote(s.replace('+', ' ')): "+" stands for a space, an escape for the
\* character it names, in either case of its hex digits
UnquoteLex(c) ==
    CASE c = "+"   -> " "
      [] c = "%2B" -> "+"
      [] c = "%2b" -> "+"
      [] OTHER     -> c

unquote_plus(s) == [i \in DOMAIN s |-> UnquoteLex(s[i])]

\* quote_plus(s): a space becomes "+", a "+" its upper-case escape
QuoteLex(c) ==
    CASE c = " " -> "+"
      [] c = "+" -> "%2B"
      [] OTHER   -> c

quote_plus(s) == [i \in DOMAIN s |-> QuoteLex(s[i])]

\* parse_qsl(qs, keep_blank_values=False): the unquoted (name, value) pairs
\* of the fields that have an "=" and a non-empty value
RECURSIVE qsl_fields(_)
qsl_fields(fields) ==
    IF fields = <<>> THEN <<>>
    ELSE LET nv == Head(fields)
             e  == find(nv, "=", 1)
         IN  (IF nv # <<>> /\ e > 0 /\ e < Len(nv)
              THEN << <<unquote_plus(SubSeq(nv, 1, e - 1)),
                      unquote_plus(SubSeq(nv, e + 1, Len(nv)))>> >>
              ELSE <<>>)
             \o qsl_fields(Tail(fields))

parse_qsl(qs) == IF qs = <<>> THEN <<>> ELSE qsl_fields(split(qs, "&"))

\* parse_qs: a dict in insertion order, as a sequence of [k, vs]:
\* each name once, with its values in order of appearance
RECURSIVE qs_group(_, _)
qs_group(pairs, acc) ==
    IF pairs = <<>> THEN acc
    ELSE LET k == Head(pairs)[1]
             v == Head(pairs)[2]
             at == {i \in DOMAIN acc : acc[i].k = k}
         IN  IF at = {}
             THEN qs_group(Tail(pairs), Append(acc, [k |-> k, vs |-> <<v>>]))
             ELSE qs_group(Tail(pairs),
                           [i \in DOMAIN acc |->
                               IF i \in at
                               THEN [k |-> k, vs |-> Append(acc[i].vs, v)]
                               ELSE acc[i]])

parse_qs(qs) ==
    CHOOSE r \in {qs_group(pairs, <<>>) : pairs \in {parse_qsl(qs)}} : TRUE

\* urlencode(d, doseq=True): name=value for every value of every name
RECURSIVE encode_values(_, _)
encode_values(k, vs) ==
    IF vs = <<>> THEN <<>>
    ELSE <<quote_plus(k) \o <<"=">> \o quote_plus(Head(vs))>>
         \o encode_values(k, Tail(vs))

RECURSIVE encode_items(_)
encode_items(d) ==
    IF d = <<>> THEN <<>>
    ELSE encode_values(Head(d).k, Head(d).vs) \o encode_items(Tail(d))

urlencode(d) == join(encode_items(d), "&")

-----------------------------------------------------------------------------
(* app/core/ids.py *)

tracking_params ==
    {<<"utm_source">>, <<"utm_medium">>, <<"utm_campaign">>, <<"utm_term">>,
     <<"utm_content">>, <<"ref">>, <<"src">>, <<"source">>, <<"referrer">>,
     <<"referer">>, <<"fbclid">>, <<"gclid">>, <<"_ga">>, <<"_gid">>,
     <<"_gac">>, <<"mc_cid">>, <<"mc_eid">>, <<"mkt_tok">>, <<"igshid">>,
     <<"twclid">>}

\* k.startswith('utm_'): word lexemes that begin with utm_
StartsWithUtm(k) == k # <<>> /\ k[1] \in {"utm_x", "utm_source"}

IsTracking(k) == lower(k) \in tracking_params \/ StartsWithUtm(lower(k))

RECURSIVE filter_params(_)
filter_params(d) ==
    IF d = <<>> THEN <<>>
    ELSE (IF IsTracking(Head(d).k) THEN <<>> ELSE <<Head(d)>>)
         \o filter_params(Tail(d))

\* the reconstruction at the end of canonicalize_url, given the parsed URL
\* and the query parameters that are kept
canonical_form(parsed, filtered) ==
    urlunparse(lower(parsed.scheme), lower(parsed.netloc), rstrip(parsed.path, "/"),
               parsed.params,
               IF filtered # <<>> THEN urlencode(filtered) ELSE <<>>,
               <<>>)

canonicalize_url(url) ==
    IF url = <<>> \/ strip(url) = <<>> THEN url
    ELSE CHOOSE r \in
            {canonical_form(parsed, filtered) :
                parsed \in {urlparse(strip(url))},
                filtered \in {filter_params(parse_qs(q)) :
                                 q \in {urlparse(strip(url)).query}}} : TRUE

\* make_job_id: the text that is hashed; SHA-256 is taken as collision-free,
\* so the hex digest is identified with the text it digests
make_job_id(company, title, url) ==
    LET company_norm == IF company # <<>> THEN lower(strip(company)) ELSE <<>>
        title_norm   == IF title # <<>> THEN lower(strip(title)) ELSE <<>>
        url_norm     == IF url # <<>> THEN canonicalize_url(url) ELSE <<>>
    IN  CHOOSE r \in {c \o <<"|">> \o t \o <<"|">> \o u :
                        c \in {company_norm}, t \in {title_norm},
                        u \in {url_norm}} : TRUE


-----------------------------------------------------------------------------
(* app/core/models.py *)

\* Job.__post_init__: job_id, source, title and company must be non-empty
JobValid(j) ==
    j.job_id # <<>> /\ j.source # <<>> /\ j.title # <<>> /\ j.company # <<>>

Job(job_id, source, title, company, location, remote, url, description, posted_at, fetched_at, tags, raw) ==
    [job_id |-> job_id, source |-> source, title |-> title,
     company |-> company, location |-> location, remote |-> remote,
     url |-> url, description |-> description, posted_at |-> posted_at,
     fetched_at |-> fetched_at, tags |-> tags, raw |-> raw]

-----------------------------------------------------------------------------
(* app/storage/sqlite_store.py: the jobs table *)

\* the columns of CREATE TABLE jobs
Columns ==
    {"job_id", "source", "title", "company", "location", "remote", "url",
     "posted_at", "fetched_at", "tags", "raw"}

\* json.dumps / json.loads of a list or a dict
json_dumps(v) == [json |-> v]

json_loads(t) == t.json

\* the parameter tuple bound to the INSERT statements of upsert_jobs:
\* the job as serialized by the head of the loop body
Serialize(job, clock) ==
    [job_id     |-> job.job_id,
     source     |-> job.source,
     title      |-> job.title,
     company    |-> job.company,
     location   |-> job.location,
     remote     |-> IF job.remote THEN 1 ELSE 0,
     url        |-> job.url,
     posted_at  |-> IF job.posted_at # None
                    THEN Some(isoformat(job.posted_at[1])) ELSE None,
     fetched_at |-> IF job.fetched_at # None
                    THEN Some(isoformat(job.fetched_at[1]))
                    ELSE Some(isoformat(UtcDatetime(clock))),
     tags       |-> IF job.tags # <<>> THEN Some(json_dumps(job.tags)) ELSE None,
     raw        |-> IF job.raw # None /\ job.raw[1] # <<>>
                    THEN Some(json_dumps(job.raw[1])) ELSE None]

\* rows of tbl with the given primary key
RowsOf(tbl, id) == {r \in tbl : r.job_id = id}

\* SELECT fetched_at FROM jobs WHERE job_id = ? ; fetchone():
\* None when no row matches, else the 1-tuple of a matching row
SelectFetchedAt(tbl, id) ==
    IF RowsOf(tbl, id) = {} THEN None
    ELSE Some((CHOOSE r \in RowsOf(tbl, id) : TRUE).fetched_at)

\* plain INSERT INTO jobs: the PRIMARY KEY constraint rejects a second row
\* with the same job_id (sqlite3.IntegrityError)
SqlInsert(tbl, row) ==
    IF RowsOf(tbl, row.job_id) # {}
    THEN [ok |-> FALSE, table |-> tbl]
    ELSE [ok |-> TRUE, table |-> tbl \cup {row}]

\* COALESCE(excluded.posted_at, jobs.posted_at)
Coalesce(a, b) == IF a # None THEN a ELSE b

UpsertNoCoalesce(tbl, row) ==
    [ok |-> TRUE, table |-> (tbl \ RowsOf(tbl, row.job_id)) \cup {row}]

UpsertAppend(tbl, row) ==
    [ok |-> TRUE, table |-> tbl \cup {row}]

\* INSERT ... ON CONFLICT(job_id) DO UPDATE SET ...: every column from the
\* new row, posted_at coalesced with the stored one
SqlUpsert(tbl, row) ==
    IF RowsOf(tbl, row.job_id) = {}
    THEN [ok |-> TRUE, table |-> tbl \cup {row}]
    ELSE LET old == CHOOSE r \in RowsOf(tbl, row.job_id) : TRUE
             new == [row EXCEPT !.posted_at = Coalesce(row.posted_at, old.posted_at)]
         IN  [ok |-> TRUE, table |-> (tbl \ {old}) \cup {new}]

ShouldUpdateAlways(existing_fetched_at, fetched_at_str) == TRUE

ShouldUpdateNotOlder(existing_fetched_at, fetched_at_str) ==
    \/ existing_fetched_at = None
    \/ ~DtGreater(fromisoformat(existing_fetched_at[1]),
                  fromisoformat(fetched_at_str[1]))

\* should_update: the stored fetched_at is absent, or both texts parse
\* and the new instant is strictly later
ShouldUpdate(existing_fetched_at, fetched_at_str) ==
    \/ existing_fetched_at = None
    \/ DtGreater(fromisoformat(fetched_at_str[1]),
                 fromisoformat(existing_fetched_at[1]))

\* one iteration of the loop of upsert_jobs on the connection's view tbl of
\* the table.  existing is the result of the SELECT (None: no row)
WriteOne(tbl, row, existing) ==
    IF existing = None
    THEN LET r == SqlInsert(tbl, row) IN
         [ok |-> r.ok, table |-> r.table, did |-> "inserted"]
    ELSE IF ShouldUpdate(existing[1], row.fetched_at)
    THEN LET r == SqlUpsert(tbl, row) IN
         [ok |-> r.ok, table |-> r.table, did |-> "updated"]
    ELSE [ok |-> TRUE, table |-> tbl, did |-> "skipped"]

\* the row stored under id, as an Optional
StoredRow(tbl, id) ==
    IF RowsOf(tbl, id) = {} THEN None ELSE Some(CHOOSE r \in RowsOf(tbl, id) : TRUE)


\* _row_to_job: the Job read back from a row.  The table has no description
\* column, so the Job gets the dataclass default
row_to_job(row) ==
    Job(row.job_id, row.source, row.title, row.company, row.location,
        row.remote # 0, row.url, None,
        IF row.posted_at # None
        THEN Some(astimezone_utc(fromisoformat(row.posted_at[1]))) ELSE None,
        IF row.fetched_at # None
        THEN Some(astimezone_utc(fromisoformat(row.fetched_at[1]))) ELSE None,
        IF row.tags # None THEN json_loads(row.tags[1]) ELSE <<>>,
        IF row.raw # None THEN Some(json_loads(row.raw[1])) ELSE None)


-----------------------------------------------------------------------------
(* Bounds and the jobs handed to upsert_jobs *)

\* longest batch handed to one call
MaxBatch == 2

\* latest clock reading
MaxTime == 3

UrlPlain == <<"https", ":", "/", "/", "x.com", "/", "jobs", "/", "1">>

UrlNoisy ==
    <<"HTTPS", ":", "/", "/", "X.com", "/", "jobs", "/", "1", "/", "?",
      "utm_x", "=", "li", "#", "f">>

UrlOther == <<"https", ":", "/", "/", "x.com", "/", "jobs", "/", "2">>

\* two renderings of one posting (same company, title and URL up to case,
\* trailing slash, fragment and tracking parameters) that differ in every
\* other field, and a second posting
JobA1(posted_at, fetched_at) ==
    Job(make_job_id(<<"Google">>, <<"Engineer">>, UrlPlain),
        <<"linkedin_rss">>, <<"Engineer">>, <<"Google">>, None, FALSE,
        Some(UrlPlain), None, posted_at, fetched_at, <<>>, None)

JobA2(posted_at, fetched_at) ==
    Job(make_job_id(<<"google">>, <<" ", "engineer">>, UrlNoisy),
        <<"greenhouse">>, <<" ", "engineer">>, <<"google">>,
        Some(<<"Remote">>), TRUE, Some(UrlNoisy), Some(<<"python">>),
        posted_at, fetched_at, << <<"python">> >>,
        Some(<< <<"title", <<"engineer">> >> >>))

JobB(posted_at, fetched_at) ==
    Job(make_job_id(<<"Google">>, <<"Manager">>, UrlOther),
        <<"lever">>, <<"Manager">>, <<"Google">>, None, FALSE,
        Some(UrlOther), None, posted_at, fetched_at, <<>>, None)

\* the jobs callers hand to upsert_jobs: the first rendering of the first
\* posting with fetched_at at instant 1 and without fetched_at; the second
\* rendering at instant 2 and, with another posted_at, at instant 1 written
\* in the +01:00 offset; and the second posting
SampleJobs ==
    {JobA1(None, Some(UtcDatetime(1))),
     JobA1(None, None),
     JobA2(Some(UtcDatetime(1)), Some(UtcDatetime(2))),
     JobA2(Some(UtcDatetime(0)), Some(Datetime(1, 1))),
     JobB(None, Some(UtcDatetime(1)))}

RECURSIVE SeqsUpTo(_, _)
SeqsUpTo(S, n) ==
    IF n = 0 THEN {<<>>}
    ELSE LET shorter == SeqsUpTo(S, n - 1) IN
         shorter \cup {Append(q, x) : q \in {r \in shorter : Len(r) = n - 1}, x \in S}

Batches == SeqsUpTo(SampleJobs, MaxBatch)

-----------------------------------------------------------------------------
(* upsert_jobs, run to completion on one connection *)

\* the loop of upsert_jobs from job i on.  st carries the connection's view
\* of the table, the clock, the counters and a record of every iteration;
\* ticks[i] is how far the clock moves before iteration i reads it, and
\* fault is the iteration at which the storage raises (0: never)
RECURSIVE UpsertLoop(_, _, _, _, _)
UpsertLoop(st, jobs, i, ticks, fault) ==
    IF i > Len(jobs) \/ ~st.ok THEN st
    ELSE LET clock    == st.clock + ticks[i]
             row      == Serialize(jobs[i], clock)
             existing == SelectFetchedAt(st.table, jobs[i].job_id)
             w        == IF fault = i
                         THEN [ok |-> FALSE, table |-> st.table, did |-> "error"]
                         ELSE WriteOne(st.table, row, existing)
             step     == [job    |-> jobs[i],
                          row    |-> row,
                          before |-> StoredRow(st.table, jobs[i].job_id),
                          after  |-> StoredRow(w.table, jobs[i].job_id),
                          did    |-> w.did]
         IN  UpsertLoop(
                 [table    |-> w.table,
                  clock    |-> clock,
                  ok       |-> w.ok,
                  inserted |-> st.inserted + (IF w.ok /\ w.did = "inserted" THEN 1 ELSE 0),
                  updated  |-> st.updated + (IF w.ok /\ w.did = "updated" THEN 1 ELSE 0),
                  trace    |-> Append(st.trace, step)],
                 jobs, i + 1, ticks, fault)

RunUpsert(tbl, clock, jobs, ticks, fault) ==
    UpsertLoop([table |-> tbl, clock |-> clock, ok |-> TRUE, inserted |-> 0,
                updated |-> 0, trace |-> <<>>], jobs, 1, ticks, fault)

RollbackKeepsWrites(stored, view) == view

\* conn.rollback() in the except clause: the writes the connection made
\* since it was opened are discarded and the table is as it was stored
Rollback(stored, view) == stored

NoCall == [op |-> "none", jobs |-> <<>>, fault |-> 0, raised |-> FALSE,
           inserted |-> 0, updated |-> 0, trace |-> <<>>]

JobIds(jobs) == {jobs[i].job_id : i \in DOMAIN jobs}

\* upsert_jobs(path, jobs) with no other connection active, called once the
\* caller is done with the previous result: an empty list returns (0, 0) at
\* once; otherwise the loop runs, then commit, or rollback and re-raise when
\* an iteration raised
UpsertJobs(jobs, ticks, fault) ==
    /\ lastCall.op = "none"
    /\ wlock = 0
    /\ \A c \in DOMAIN conn : conn[c].pc = "idle"
    /\ IF jobs = <<>>
       THEN /\ lastCall' = [op |-> "upsert", jobs |-> jobs, fault |-> 0,
                            raised |-> FALSE, inserted |-> 0, updated |-> 0,
                            trace |-> <<>>]
            /\ UNCHANGED <<table, now, ever>>
       ELSE LET r == RunUpsert(table, now, jobs, ticks, fault) IN
            /\ r.clock <= MaxTime
            /\ now' = r.clock
            /\ IF r.ok
               THEN /\ table' = r.table
                    /\ ever' = ever \cup JobIds(jobs)
                    /\ lastCall' = [op |-> "upsert", jobs |-> jobs,
                                    fault |-> fault,
                                    raised |-> FALSE, inserted |-> r.inserted,
                                    updated |-> r.updated, trace |-> r.trace]
               ELSE /\ table' = Rollback(table, r.table)
                    /\ UNCHANGED ever
                    /\ lastCall' = [op |-> "upsert", jobs |-> jobs,
                                    fault |-> fault,
                                    raised |-> TRUE, inserted |-> 0,
                                    updated |-> 0, trace |-> r.trace]
    /\ UNCHANGED <<conn, wlock, dd>>

\* the clock readings a batch can see: the clock may move before an
\* iteration that reads it (a job without fetched_at), not otherwise
TicksFor(jobs) ==
    {tk \in [DOMAIN jobs -> {0, 1}] :
        \A i \in DOMAIN jobs : jobs[i].fetched_at # None => tk[i] = 0}

Upsert ==
    \E jobs \in Batches : \E ticks \in TicksFor(jobs) : \E fault \in 0..Len(jobs) :
        /\ jobs = <<>> => fault = 0
        /\ UpsertJobs(jobs, ticks, fault)

\* the caller is done with what the last call returned
Return ==
    /\ lastCall.op # "none"
    /\ lastCall' = NoCall
    /\ UNCHANGED <<table, now, ever, conn, wlock, dd>>

\* time passes between calls
Tick ==
    /\ lastCall.op = "none"
    /\ now < MaxTime
    /\ now' = now + 1
    /\ UNCHANGED <<table, lastCall, ever, conn, wlock, dd>>

Connections == {1, 2}

IdleConn == [pc |-> "idle"]

\* init_db on a fresh file: the jobs table exists and is empty
Init ==
    /\ table = {}
    /\ now = 0
    /\ lastCall = NoCall
    /\ ever = {}
    /\ conn = [c \in Connections |-> IdleConn]
    /\ wlock = 0
    /\ dd = [xs |-> <<>>, out |-> <<>>, prev |-> <<>>, n |-> 0]

Next == Upsert \/ Return \/ Tick

Spec == Init /\ [][Next]_vars


-----------------------------------------------------------------------------
(* Properties of upsert_jobs *)

\* the iterations of the last call, when it was an upsert that the storage
\* did not interrupt
Steps == IF lastCall.op = "upsert" /\ lastCall.fault = 0
         THEN {lastCall.trace[i] : i \in DOMAIN lastCall.trace} ELSE {}

StepIdx == IF lastCall.op = "upsert" /\ lastCall.fault = 0
           THEN DOMAIN lastCall.trace ELSE {}

\* the fetched_at an iteration brought: the job's own, or the clock reading
\* that was written for a job without one
IncomingFetched(st) ==
    IF st.job.fetched_at # None THEN st.job.fetched_at[1]
    ELSE fromisoformat(st.row.fetched_at[1])

StoredFetched(st) == row_to_job(st.before[1]).fetched_at[1]

Newer(st) == IncomingFetched(st).utc > StoredFetched(st).utc

Count(did) == Cardinality({i \in StepIdx : lastCall.trace[i].did = did})

C2_PostedAtKept ==
    [][ /\ \A r \in table : r.posted_at # None =>
              \E q \in table' : q.job_id = r.job_id /\ q.posted_at # None
        /\ lastCall'.op = "upsert" =>
              \A i \in DOMAIN lastCall'.trace :
                 LET st == lastCall'.trace[i] IN
                 (st.before # None /\ st.before[1].posted_at # None) =>
                    /\ st.after # None
                    /\ st.after[1].posted_at # None
                    /\ st.job.posted_at = None =>
                          st.after[1].posted_at = st.before[1].posted_at
      ]_vars

\* C2 witness: a job without posted_at updated a record that had one
C2_Witness ==
    \E st \in Steps :
        /\ st.before # None /\ st.before[1].posted_at # None
        /\ st.job.posted_at = None
        /\ st.did = "updated"
        /\ \E r \in table : r.job_id = st.job.job_id /\ r.posted_at # None

\* the fields of the stored record, read back, equal those of the job
SameField(f, stored, job) ==
    IF f = "fetched_at"
    THEN IF job.fetched_at = None THEN stored.fetched_at # None
         ELSE stored.fetched_at # None
              /\ DtEqual(stored.fetched_at[1], job.fetched_at[1])
    ELSE stored[f] = job[f]

\* C6 (as claimed): after an update of an existing job_id every stored field
\* (source, title, company, location, remote, url, description, fetched_at,
\* tags, raw) equals the incoming job's, and posted_at is the incoming one
\* when it is not null and the previously stored one otherwise.
C6_AllFieldsOverwritten ==
    \A st \in Steps : (st.before # None /\ st.did = "updated") =>
        LET stored == row_to_job(st.after[1])
            old    == row_to_job(st.before[1])
        IN  /\ \A f \in {"source", "title", "company", "location", "remote",
                         "url", "description", "fetched_at", "tags", "raw"} :
                   SameField(f, stored, st.job)
            /\ stored.posted_at =
                  (IF st.job.posted_at # None
                   THEN Some(astimezone_utc(st.job.posted_at[1]))
                   ELSE old.posted_at)

\* C7: after any sequence of upsert calls that returned normally the table
\* holds exactly one row for every job_id ever upserted and no other row;
\* a job whose job_id is not stored is inserted and counted as inserted.
C7_OneRowPerId ==
    /\ {r.job_id : r \in table} = ever
    /\ \A id \in ever : Cardinality(RowsOf(table, id)) = 1
    /\ \A st \in Steps : st.before = None =>
          st.did = "inserted" /\ st.after = Some(st.row)
    /\ lastCall.op = "upsert" /\ lastCall.fault = 0 =>
          lastCall.inserted =
             Cardinality({i \in StepIdx : lastCall.trace[i].before = None})

\* C7 witness: both postings are stored, the first after an insert and at
\* least one update
C7_Witness ==
    /\ Cardinality(ever) = 2
    /\ Cardinality(table) = 2
    /\ \E st \in Steps : st.did = "updated"
    /\ \E st \in Steps : st.did = "inserted"

\* C8 (as the doctest asserts): upserting one job into an empty store
\* returns (1, 0), and upserting the identical job again, over the very row
\* it wrote, returns (0, 1).
C8_SecondUpsertCounts ==
    (/\ lastCall.op = "upsert" /\ lastCall.fault = 0
     /\ Len(lastCall.jobs) = 1
     /\ lastCall.jobs[1].fetched_at # None) =>
        LET st == lastCall.trace[1] IN
        /\ st.before = None =>
              lastCall.inserted = 1 /\ lastCall.updated = 0
        /\ st.before = Some(st.row) =>
              lastCall.inserted = 0 /\ lastCall.updated = 1

-----------------------------------------------------------------------------
(* upsert_jobs on two connections at once.  Each call opens its own           *)
(* connection (sqlite3.connect, default isolation level): a SELECT outside a  *)
(* transaction reads the committed table; the first INSERT opens the          *)
(* transaction and takes the database write lock, which is held until commit  *)
(* or rollback; a connection that needs the lock while the other holds it     *)
(* waits (the busy timeout is taken to outlast the other call).               *)

\* longest batch handed to one of two concurrent calls
MaxConcBatch == 2

ConcJobs ==
    {JobA1(None, Some(UtcDatetime(1))),
     JobA1(None, Some(UtcDatetime(2))),
     JobA1(None, Some(UtcDatetime(3))),
     JobB(None, Some(UtcDatetime(1)))}

ConcBatches == SeqsUpTo(ConcJobs, MaxConcBatch) \ {<<>>}

\* what connection c reads: its own uncommitted rows once it has written,
\* the committed table otherwise
View(c) == IF wlock = c THEN conn[c].view ELSE table

\* upsert_jobs is entered with a non-empty list: connect.  had records the
\* job_ids stored at that moment
Begin(c, jobs) ==
    /\ conn[c].pc = "idle"
    /\ conn' = [conn EXCEPT ![c] =
                   [pc |-> "select", jobs |-> jobs, i |-> 1, existing |-> None,
                    view |-> {}, inserted |-> 0, updated |-> 0,
                    raised |-> FALSE, had |-> {r.job_id : r \in table}]]
    /\ UNCHANGED <<table, now, lastCall, ever, wlock, dd>>

\* SELECT fetched_at FROM jobs WHERE job_id = ? ; fetchone()
Select(c) ==
    /\ conn[c].pc = "select"
    /\ conn' = [conn EXCEPT ![c].pc = "write",
                            ![c].existing =
                                SelectFetchedAt(View(c),
                                                conn[c].jobs[conn[c].i].job_id)]
    /\ UNCHANGED <<table, now, lastCall, ever, wlock, dd>>

\* the rest of the loop body, given its outcome w on the connection's view:
\* a statement that writes needs the write lock; sqlite3.IntegrityError goes
\* to the except clause (rollback, re-raise)
WriteWith(c, w) ==
    /\ w.did # "skipped" => wlock \in {0, c}
    /\ IF ~w.ok
       THEN /\ conn' = [conn EXCEPT ![c].pc = "done", ![c].raised = TRUE,
                                    ![c].view = {}]
            /\ wlock' = IF wlock = c THEN 0 ELSE wlock
       ELSE /\ conn' = [conn EXCEPT
                  ![c].pc = IF conn[c].i = Len(conn[c].jobs)
                            THEN "commit" ELSE "select",
                  ![c].i = conn[c].i + 1,
                  ![c].view = IF w.did # "skipped" \/ wlock = c
                              THEN w.table ELSE {},
                  ![c].inserted = conn[c].inserted
                                  + (IF w.did = "inserted" THEN 1 ELSE 0),
                  ![c].updated = conn[c].updated
                                 + (IF w.did = "updated" THEN 1 ELSE 0)]
            /\ wlock' = IF w.did # "skipped" THEN c ELSE wlock
    /\ UNCHANGED <<table, now, lastCall, ever, dd>>

Write(c) ==
    /\ conn[c].pc = "write"
    /\ \E w \in {WriteOne(View(c),
                          Serialize(conn[c].jobs[conn[c].i], now),
                          conn[c].existing)} :
          WriteWith(c, w)

\* conn.commit(): the connection's rows become the committed table and the
\* write lock is released; the call returns its counts
Commit(c) ==
    /\ conn[c].pc = "commit"
    /\ conn' = [conn EXCEPT ![c].pc = "done", ![c].view = {}]
    /\ table' = View(c)
    /\ wlock' = IF wlock = c THEN 0 ELSE wlock
    /\ ever' = ever \cup JobIds(conn[c].jobs)
    /\ UNCHANGED <<now, lastCall, dd>>

\* the caller has taken the result (the counts or the exception)
Finish(c) ==
    /\ conn[c].pc = "done"
    /\ conn' = [conn EXCEPT ![c] = IdleConn]
    /\ UNCHANGED <<table, now, lastCall, ever, wlock, dd>>

BeginSome == \E c \in Connections : \E jobs \in ConcBatches : Begin(c, jobs)

SelectSome == \E c \in Connections : Select(c)

WriteSome == \E c \in Connections : Write(c)

CommitSome == \E c \in Connections : Commit(c)

FinishSome == \E c \in Connections : Finish(c)

NextConc == BeginSome \/ SelectSome \/ WriteSome \/ CommitSome \/ FinishSome

SpecConc == Init /\ [][NextConc]_vars

\* the stored fetched_at instant of job_id id
StoredInstant(id) ==
    fromisoformat((CHOOSE r \in RowsOf(table, id) : TRUE).fetched_at[1]).utc

\* C4 (as claimed): when two upsert calls on separate connections, both
\* given a job_id that was stored when they began, have both returned, the
\* stored record is not older than either call's job, whatever the
\* interleaving: the newer fetched_at wins.
C4_NewerWinsConcurrently ==
    (\A c \in Connections : conn[c].pc = "done" /\ ~conn[c].raised) =>
        \A c \in Connections : \A i \in DOMAIN conn[c].jobs :
            conn[c].jobs[i].job_id \in conn[1].had \cap conn[2].had =>
                /\ RowsOf(table, conn[c].jobs[i].job_id) # {}
                /\ StoredInstant(conn[c].jobs[i].job_id)
                      >= conn[c].jobs[i].fetched_at[1].utc

\* C5 (as claimed): a call that has ended has not raised, it has counted
\* every job it was given that was not stored when it read, and every
\* job_id it was given is stored.
C5_RaceNeverRaises ==
    \A c \in Connections : conn[c].pc = "done" =>
        /\ ~conn[c].raised
        /\ \A i \in DOMAIN conn[c].jobs :
              RowsOf(table, conn[c].jobs[i].job_id) # {}

-----------------------------------------------------------------------------
(* deduplicate_jobs (app/core/ids.py; app/utils/dedupe.py is the same code) *)

RECURSIVE DedupKeepLastLoop(_, _, _, _)
DedupKeepLastLoop(jobs, i, seen, unique) ==
    IF i < 1 THEN unique
    ELSE IF jobs[i].job_id \notin seen
    THEN DedupKeepLastLoop(jobs, i - 1, seen \cup {jobs[i].job_id},
                           <<jobs[i]>> \o unique)
    ELSE DedupKeepLastLoop(jobs, i - 1, seen, unique)

DedupKeepLast(jobs) == DedupKeepLastLoop(jobs, Len(jobs), {}, <<>>)

RECURSIVE DedupForgetfulLoop(_, _, _, _)
DedupForgetfulLoop(jobs, i, seen, unique) ==
    IF i > Len(jobs) THEN unique
    ELSE IF jobs[i].job_id \notin seen
    THEN DedupForgetfulLoop(jobs, i + 1, seen \cup {jobs[i].job_id},
                            Append(unique, jobs[i]))
    ELSE DedupForgetfulLoop(jobs, i + 1, seen \ {jobs[i].job_id}, unique)

DedupForgetful(jobs) == DedupForgetfulLoop(jobs, 1, {}, <<>>)

DedupKeepAll(jobs) == jobs

\* the for loop: seen is the set of job_ids met so far, unique the jobs kept
RECURSIVE DedupLoop(_, _, _, _)
DedupLoop(jobs, i, seen, unique) ==
    IF i > Len(jobs) THEN unique
    ELSE IF jobs[i].job_id \notin seen
    THEN DedupLoop(jobs, i + 1, seen \cup {jobs[i].job_id},
                   Append(unique, jobs[i]))
    ELSE DedupLoop(jobs, i + 1, seen, unique)

deduplicate_jobs(jobs) == DedupLoop(jobs, 1, {}, <<>>)

\* longest list handed to deduplicate_jobs
MaxDedupLen == 3

DedupJobs ==
    {JobA1(None, Some(UtcDatetime(1))),
     JobA2(Some(UtcDatetime(0)), Some(UtcDatetime(2))),
     JobB(None, Some(UtcDatetime(1))),
     JobB(Some(UtcDatetime(1)), Some(UtcDatetime(2)))}

\* dd.xs is the list first handed in, dd.out the last result, dd.prev the
\* result before it, dd.n the number of applications so far
InitDedup ==
    /\ table = {}
    /\ now = 0
    /\ lastCall = NoCall
    /\ ever = {}
    /\ conn = [c \in Connections |-> IdleConn]
    /\ wlock = 0
    /\ \E xs \in SeqsUpTo(DedupJobs, MaxDedupLen) :
          dd = [xs |-> xs, out |-> <<>>, prev |-> <<>>, n |-> 0]

\* deduplicate_jobs applied to the list, then again to its own result
Dedup ==
    /\ dd.n < 2
    /\ dd' = [xs   |-> dd.xs,
              out  |-> deduplicate_jobs(IF dd.n = 0 THEN dd.xs ELSE dd.out),
              prev |-> dd.out,
              n    |-> dd.n + 1]
    /\ UNCHANGED <<table, now, lastCall, ever, conn, wlock>>

NextDedup == Dedup

SpecDedup == InitDedup /\ [][NextDedup]_vars

\* positions of xs that hold the first occurrence of their job_id
FirstOccurrences(xs) ==
    {i \in DOMAIN xs : \A k \in 1..(i - 1) : xs[k].job_id # xs[i].job_id}

\* the k-th smallest member of a set of positions
KthOf(S, k) == CHOOSE i \in S : Cardinality({j \in S : j <= i}) = k

\* C9: deduplicate returns the subsequence of the input made of exactly the
\* first occurrence of each job_id: no job_id twice, every job_id of the
\* input present, later occurrences dropped, input order kept.
C9_DedupFirstOccurrences ==
    dd.n = 1 =>
        LET F == FirstOccurrences(dd.xs) IN
        /\ Len(dd.out) = Cardinality(F)
        /\ \A k \in DOMAIN dd.out : dd.out[k] = dd.xs[KthOf(F, k)]
        /\ \A a, b \in DOMAIN dd.out :
              a # b => dd.out[a].job_id # dd.out[b].job_id
        /\ JobIds(dd.out) = JobIds(dd.xs)

\* C9 witness: a list with a repeated job_id whose occurrences differ, with
\* another job in between, has been deduplicated
C9_Witness ==
    /\ dd.n = 1
    /\ Len(dd.xs) = 3
    /\ dd.xs[1].job_id = dd.xs[3].job_id
    /\ dd.xs[1] # dd.xs[3]
    /\ dd.xs[2].job_id # dd.xs[1].job_id
    /\ dd.out = <<dd.xs[1], dd.xs[2]>>

\* C10: deduplicating the result of a deduplication gives that result again.
C10_DedupIdempotent ==
    dd.n = 2 => dd.out = dd.prev

\* C10 witness: the second application ran on the result of a first one that
\* had dropped something
C10_Witness ==
    /\ dd.n = 2
    /\ Len(dd.prev) < Len(dd.xs)
    /\ dd.prev # <<>>
    /\ dd.out = dd.prev

-----------------------------------------------------------------------------
(* app/core/normalize.py: raw entries and the three normalizers.  A raw     *)
(* entry is a dict; a key that is absent is None here, a key holding a      *)
(* string is Some(text).  A date string is [ok, wall, tz]: whether dateutil *)
(* can parse it, its wall-clock digits, and its offset (None: naive).       *)

RawEntry(source, title, url, company, location, description, published_parsed, published, updated_at, created_at, createdAt, raw_entry) ==
    [source |-> source, title |-> title, url |-> url, company |-> company,
     location |-> location, description |-> description,
     published_parsed |-> published_parsed, published |-> published,
     updated_at |-> updated_at, created_at |-> created_at,
     createdAt |-> createdAt, raw_entry |-> raw_entry]

DateText(wall, tz) == [ok |-> TRUE, wall |-> wall, tz |-> tz]

BadDateText == [ok |-> FALSE, wall |-> 0, tz |-> None]

\* dict.get(key, "")
Get(o) == IF o = None THEN <<>> ELSE o[1]

\* text.strip() or None, for a truthy text; a falsy value is left as it is
StripOrNone(o) ==
    IF TruthyStr(o)
    THEN (IF strip(o[1]) # <<>> THEN Some(strip(o[1])) ELSE None)
    ELSE o

\* date_parser.parse(text), made UTC: a naive result is taken as UTC, an
\* aware one is converted
ParsedUtc(text) ==
    IF text.tz = None THEN UtcDatetime(text.wall)
    ELSE UtcDatetime(text.wall - text.tz[1])

\* hours in timedelta(days=1)
DayHours == 24

\* milliseconds in one hour: createdAt / 1000.0 is in seconds, instants
\* here count hours
MsPerHour == 3600000

_parse_posted_at(entry) ==
    IF entry.published_parsed # None
    THEN Some(UtcDatetime(entry.published_parsed[1]))
    ELSE IF entry.published # None /\ entry.published[1].ok
    THEN Some(ParsedUtc(entry.published[1]))
    ELSE None

\* _parse_greenhouse_posted_at preferring created_at from 24 hours on
GreenhouseDayInclusive(raw) ==
    IF raw.updated_at # None /\ raw.updated_at[1].ok
    THEN IF /\ raw.created_at # None
            /\ raw.created_at[1].ok
            /\ ParsedUtc(raw.created_at[1]).utc
                  <= ParsedUtc(raw.updated_at[1]).utc - DayHours
         THEN Some(ParsedUtc(raw.created_at[1]))
         ELSE Some(ParsedUtc(raw.updated_at[1]))
    ELSE IF raw.created_at # None /\ raw.created_at[1].ok
    THEN Some(ParsedUtc(raw.created_at[1]))
    ELSE None

_parse_greenhouse_posted_at(raw) ==
    IF raw.updated_at # None /\ raw.updated_at[1].ok
    THEN IF /\ raw.created_at # None
            /\ raw.created_at[1].ok
            /\ ParsedUtc(raw.created_at[1]).utc
                  < ParsedUtc(raw.updated_at[1]).utc - DayHours
         THEN Some(ParsedUtc(raw.created_at[1]))
         ELSE Some(ParsedUtc(raw.updated_at[1]))
    ELSE IF raw.created_at # None /\ raw.created_at[1].ok
    THEN Some(ParsedUtc(raw.created_at[1]))
    ELSE None

\* a createdAt value: a number of milliseconds that datetime.fromtimestamp
\* accepts, a number whose year is out of range (ValueError), a number out
\* of the range of time_t (OverflowError), or a value that is no number
EpochMs(ms) == [type |-> "number", ms |-> ms, range |-> "ok"]

EpochYearOut == [type |-> "number", ms |-> 0, range |-> "year"]

EpochTimeOut == [type |-> "number", ms |-> 0, range |-> "time_t"]

EpochText == [type |-> "text", ms |-> 0, range |-> "ok"]

\* datetime.fromtimestamp raises OverflowError, which the except clause of
\* _parse_lever_posted_at (ValueError, TypeError, OSError) does not name
LeverParseRaises(raw) ==
    /\ raw.createdAt # None
    /\ raw.createdAt[1].type = "number"
    /\ raw.createdAt[1].range = "time_t"

_parse_lever_posted_at(raw) ==
    IF raw.createdAt = None THEN None
    ELSE IF raw.createdAt[1].type # "number" \/ raw.createdAt[1].range # "ok"
    THEN None
    ELSE Some(UtcDatetime(raw.createdAt[1].ms \div MsPerHour))

\* s.find(sub, from) for a sub of several lexemes; 0 when there is none
RECURSIVE find_sub(_, _, _)
find_sub(s, sub, from) ==
    IF from + Len(sub) - 1 > Len(s) THEN 0
    ELSE IF SubSeq(s, from, from + Len(sub) - 1) = sub THEN from
    ELSE find_sub(s, sub, from + 1)

\* the separators tried by _extract_company_from_title, in order
Separators ==
    << <<" ", "at", " ">>, <<" ", "-", " ">>, <<" ", "|", " ">> >>

\* lower-case word lexemes that contain one of job_words
JobWordLexemes == {"engineer", "manager"}

HasJobWord(part) == \E i \in DOMAIN part : LowerLex(part[i]) \in JobWordLexemes

\* the body of the separator loop for separator k found at position at
CompanyFromParts(part1, part2, k) ==
    IF HasJobWord(part1) /\ ~HasJobWord(part2) THEN Some(part2)
    ELSE IF HasJobWord(part2) /\ ~HasJobWord(part1) THEN Some(part1)
    ELSE IF k = 1 THEN Some(part2)
    ELSE None

RECURSIVE ExtractCompanyFrom(_, _)
ExtractCompanyFrom(title, k) ==
    IF k > Len(Separators) THEN None
    ELSE IF find_sub(title, Separators[k], 1) = 0
    THEN ExtractCompanyFrom(title, k + 1)
    ELSE CHOOSE r \in
            {IF c # None THEN c ELSE ExtractCompanyFrom(title, k + 1) :
                c \in {CompanyFromParts(
                          strip(SubSeq(title, 1, at - 1)),
                          strip(SubSeq(title, at + Len(Separators[k]),
                                       Len(title))),
                          k) : at \in {find_sub(title, Separators[k], 1)}}} :
            TRUE

_extract_company_from_title(title) ==
    IF title = <<>> THEN None ELSE ExtractCompanyFrom(title, 1)

\* lower-case word lexemes that contain one of location_indicators
LocationLexemes == {"remote"}

\* re.findall(r'\(([^)]+)\)', s) from position from on
RECURSIVE ParenMatches(_, _)
ParenMatches(s, from) ==
    IF find(s, "(", from) = 0 THEN <<>>
    ELSE IF find(s, ")", find(s, "(", from) + 1) = 0 THEN <<>>
    ELSE IF find(s, ")", find(s, "(", from) + 1) = find(s, "(", from) + 1
    THEN ParenMatches(s, find(s, "(", from) + 1)
    ELSE <<SubSeq(s, find(s, "(", from) + 1,
                  find(s, ")", find(s, "(", from) + 1) - 1)>>
         \o ParenMatches(s, find(s, ")", find(s, "(", from) + 1) + 1)

RECURSIVE FirstLocation(_)
FirstLocation(matches) ==
    IF matches = <<>> THEN None
    ELSE IF \E i \in DOMAIN Head(matches) :
               LowerLex(Head(matches)[i]) \in LocationLexemes
    THEN Some(strip(Head(matches)))
    ELSE FirstLocation(Tail(matches))

_extract_location_from_title(title) ==
    IF title = <<>> THEN None
    ELSE IF find(title, "(", 1) > 0 /\ find(title, ")", 1) > 0
    THEN FirstLocation(ParenMatches(title, 1))
    ELSE None

\* "remote" in text.lower()
HasRemote(s) == \E i \in DOMAIN s : LowerLex(s[i]) = "remote"

_is_remote(title, location) ==
    \/ title # <<>> /\ HasRemote(title)
    \/ TruthyStr(location) /\ HasRemote(location[1])

\* lexemes that are one HTML tag
HtmlTagLexemes == {"<b>", "</b>"}

\* re.sub(r'<[^>]+>', '', s)
StripTags(s) == SelectSeq(s, LAMBDA c : c \notin HtmlTagLexemes)

\* re.sub(r'\s+', ' ', s)
RECURSIVE CollapseSpaces(_)
CollapseSpaces(s) ==
    IF Len(s) < 2 THEN s
    ELSE IF s[1] = " " /\ s[2] = " " THEN CollapseSpaces(Tail(s))
    ELSE <<s[1]>> \o CollapseSpaces(Tail(s))

\* the description of an RSS entry
RssDescription(o) ==
    IF ~TruthyStr(o) THEN o
    ELSE IF strip(o[1]) = <<>> THEN None
    ELSE IF strip(CollapseSpaces(StripTags(strip(o[1])))) = <<>> THEN None
    ELSE Some(strip(CollapseSpaces(StripTags(strip(o[1])))))

\* the entry as the dict stored in Job.raw: its text keys, in order
EntryDict(entry) ==
    SelectSeq(<< <<"source", entry.source>>, <<"title", entry.title>>,
                 <<"url", entry.url>>, <<"company", entry.company>>,
                 <<"location", entry.location>>,
                 <<"description", entry.description>> >>,
              LAMBDA kv : kv[2] # None)

\* entry.get("raw_entry") or entry
RawOf(entry) ==
    IF entry.raw_entry # None /\ entry.raw_entry[1] # <<>>
    THEN entry.raw_entry ELSE Some(EntryDict(entry))

\* Job(...) in a try block: None when __post_init__ raises ValueError
TryJob(j) == IF JobValid(j) THEN Some(j) ELSE None

\* the company of an RSS entry: the one given, else one read off the
\* title, else "Unknown"
RssCompany(entry, title) ==
    CHOOSE r \in
        {IF TruthyStr(c) THEN c[1] ELSE <<"Unknown">> :
            c \in {IF TruthyStr(entry.company)
                   THEN Some(strip(entry.company[1]))
                   ELSE _extract_company_from_title(title)}} : TRUE

RssLocation(entry, title) ==
    IF TruthyStr(entry.location) THEN StripOrNone(entry.location)
    ELSE _extract_location_from_title(title)

\* the tail of a normalizer, once the required fields are there
BuildJob(source, title, company, location, url, description, posted_at, clock, raw) ==
    TryJob(Job(make_job_id(company, title, url), source, title, company,
               location, _is_remote(title, location), Some(url), description,
               posted_at, Some(UtcDatetime(clock)), <<>>, raw))

\* normalize_rss_entry without the check of url
RssNoUrlCheck(entry, clock) ==
    IF \/ strip(Get(entry.source)) = <<>>
       \/ strip(Get(entry.title)) = <<>>
    THEN None
    ELSE CHOOSE r \in
            {BuildJob(strip(Get(entry.source)), title, company, location,
                      strip(Get(entry.url)), RssDescription(entry.description),
                      _parse_posted_at(entry), clock, RawOf(entry)) :
                title \in {strip(Get(entry.title))},
                company \in {RssCompany(entry, strip(Get(entry.title)))},
                location \in {RssLocation(entry, strip(Get(entry.title)))}} :
            TRUE

normalize_rss_entry(entry, clock) ==
    IF \/ strip(Get(entry.source)) = <<>>
       \/ strip(Get(entry.title)) = <<>>
       \/ strip(Get(entry.url)) = <<>>
    THEN None
    ELSE CHOOSE r \in
            {BuildJob(strip(Get(entry.source)), title, company, location,
                      strip(Get(entry.url)), RssDescription(entry.description),
                      _parse_posted_at(entry), clock, RawOf(entry)) :
                title \in {strip(Get(entry.title))},
                company \in {RssCompany(entry, strip(Get(entry.title)))},
                location \in {RssLocation(entry, strip(Get(entry.title)))}} :
            TRUE

\* normalize_greenhouse and normalize_lever differ in the posted_at they
\* are given
BoardJob(raw, posted_at, clock) ==
    IF \/ strip(Get(raw.source)) = <<>>
       \/ strip(Get(raw.title)) = <<>>
       \/ strip(Get(raw.url)) = <<>>
    THEN None
    ELSE CHOOSE r \in
            {BuildJob(strip(Get(raw.source)), title, company, location,
                      strip(Get(raw.url)), StripOrNone(raw.description),
                      posted_at, clock, RawOf(raw)) :
                title \in {strip(Get(raw.title))},
                company \in {IF strip(Get(raw.company)) # <<>>
                             THEN strip(Get(raw.company))
                             ELSE <<"Unknown">>},
                location \in {StripOrNone(raw.location)}} : TRUE

normalize_greenhouse(raw, clock) ==
    BoardJob(raw, _parse_greenhouse_posted_at(raw), clock)

normalize_lever(raw, clock) ==
    BoardJob(raw, _parse_lever_posted_at(raw), clock)

\* a key that is present with the value None (only ever put where the
\* code calls .strip() on what .get() returned)
PyNone == <<"<None>">>

\* entry.get(key, "").strip() raises AttributeError: normalize_all strips
\* source, every normalizer strips source, title and url, and the
\* Greenhouse and Lever normalizers strip company, all before any check;
\* normalize_lever, past its checks, raises what _parse_lever_posted_at raises
EntryRaises(entry) ==
    \/ entry.source = Some(PyNone)
    \/ entry.title = Some(PyNone)
    \/ entry.url = Some(PyNone)
    \/ /\ lower(strip(Get(entry.source))) \in {<<"greenhouse">>, <<"lever">>}
       /\ entry.company = Some(PyNone)
    \/ /\ lower(strip(Get(entry.source))) = <<"lever">>
       /\ strip(Get(entry.title)) # <<>>
       /\ strip(Get(entry.url)) # <<>>
       /\ LeverParseRaises(entry)

\* the body of the loop of normalize_all: route on the lower-cased source
NormalizeOne(entry, clock) ==
    IF lower(strip(Get(entry.source))) = <<"greenhouse">>
    THEN normalize_greenhouse(entry, clock)
    ELSE IF lower(strip(Get(entry.source))) = <<"lever">>
    THEN normalize_lever(entry, clock)
    ELSE normalize_rss_entry(entry, clock)

\* normalize_all without its try/except: the first entry that raises ends
\* the call
RECURSIVE AbortLoop(_, _, _, _, _)
AbortLoop(raw_items, i, clock, tick, jobs) ==
    IF i > Len(raw_items) THEN [jobs |-> jobs, clock |-> clock, raised |-> FALSE]
    ELSE IF EntryRaises(raw_items[i])
    THEN [jobs |-> <<>>, clock |-> clock + tick, raised |-> TRUE]
    ELSE CHOOSE r \in
            {AbortLoop(raw_items, i + 1, clock + tick, tick, jobs \o job) :
                job \in {NormalizeOne(raw_items[i], clock + tick)}} : TRUE

NormalizeAllAbort(raw_items, clock, tick) ==
    AbortLoop(raw_items, 1, clock, tick, <<>>)

\* normalize_all: the jobs of the entries that normalize, in order; an
\* entry that raises is logged and skipped, so the call itself never raises.
\* The clock moves by tick before each entry is normalized; the result
\* carries the clock after the last one
RECURSIVE NormalizeLoop(_, _, _, _, _)
NormalizeLoop(raw_items, i, clock, tick, jobs) ==
    IF i > Len(raw_items) THEN [jobs |-> jobs, clock |-> clock, raised |-> FALSE]
    ELSE CHOOSE r \in
            {NormalizeLoop(raw_items, i + 1, clock + tick, tick, jobs \o job) :
                job \in {IF EntryRaises(raw_items[i]) THEN None
                         ELSE NormalizeOne(raw_items[i], clock + tick)}} : TRUE

normalize_all(raw_items, clock, tick) ==
    NormalizeLoop(raw_items, 1, clock, tick, <<>>)

-----------------------------------------------------------------------------
(* app/core/keywords.py: tag_job *)

\* [kw.lower().strip() for kw in keywords if kw.strip()]
RECURSIVE keywords_lower(_)
keywords_lower(keywords) ==
    IF keywords = <<>> THEN <<>>
    ELSE (IF strip(Head(keywords)) # <<>>
          THEN <<strip(lower(Head(keywords)))>> ELSE <<>>)
         \o keywords_lower(Tail(keywords))

InSeq(x, s) == \E i \in DOMAIN s : s[i] = x

\* one of the three loops over keywords_lower, for one lower-cased text
RECURSIVE TagScan(_, _, _, _)
TagScan(text_lower, kws, i, matched) ==
    IF i > Len(kws) THEN matched
    ELSE IF contains(text_lower, kws[i]) /\ ~InSeq(kws[i], matched)
    THEN TagScan(text_lower, kws, i + 1, Append(matched, kws[i]))
    ELSE TagScan(text_lower, kws, i + 1, matched)

\* title, then company, then location
MatchedTags(job, kws) ==
    CHOOSE r \in
        {IF TruthyStr(job.location)
         THEN TagScan(lower(job.location[1]), kws, 1, m2) ELSE m2 :
            m2 \in {IF job.company # <<>>
                    THEN TagScan(lower(job.company), kws, 1, m1) ELSE m1 :
                       m1 \in {IF job.title # <<>>
                               THEN TagScan(lower(job.title), kws, 1, <<>>)
                               ELSE <<>>}}} : TRUE

\* tag_job scanning the company before the title
TagCompanyFirst(job, keywords) ==
    IF keywords = <<>> THEN [job EXCEPT !.tags = <<>>]
    ELSE [job EXCEPT !.tags =
             MatchedTags([job EXCEPT !.title = job.company, !.company = job.title],
                         keywords_lower(keywords))]

tag_job(job, keywords) ==
    IF keywords = <<>> THEN [job EXCEPT !.tags = <<>>]
    ELSE [job EXCEPT !.tags = MatchedTags(job, keywords_lower(keywords))]

-----------------------------------------------------------------------------
(* app/core/freshness.py *)

\* is_fresh with the boundary excluded
IsFreshStrict(posted_at, now_utc, max_age_hours) ==
    astimezone_utc(posted_at).utc > now_utc.utc - max_age_hours

\* is_fresh: posted_at, taken to UTC, is at or after the cutoff
is_fresh(posted_at, now_utc, max_age_hours) ==
    astimezone_utc(posted_at).utc >= now_utc.utc - max_age_hours

\* filter_fresh, with the clock reading it takes
filter_fresh(jobs, max_age_hours, clock) ==
    IF jobs = <<>> THEN <<>>
    ELSE SelectSeq(jobs,
                   LAMBDA job : /\ job.posted_at # None
                                /\ is_fresh(job.posted_at[1],
                                            UtcDatetime(clock), max_age_hours))

-----------------------------------------------------------------------------
(* app/main.py: one run of the batch, from the raw entries to the store *)

\* longest list of raw entries of one run
MaxRaw == 2

\* settings.MAX_AGE_HOURS of the runs
MaxAge == 2

\* settings.KEYWORDS: none configured, or these
KeywordLists == {<<>>, << <<"Remote">>, <<" ", "engineer">> >>}

\* one posting as an RSS entry and as a Greenhouse entry (same company,
\* title and URL up to case, blanks and tracking noise; the second carries a
\* location), another posting as a Lever entry, and an entry without URL
RawSamples ==
    {RawEntry(Some(<<"linkedin_rss">>), Some(<<"Engineer">>), Some(UrlPlain),
              Some(<<"Google">>), None, None, Some(1), None, None, None, None,
              None),
     RawEntry(Some(<<"greenhouse">>), Some(<<" ", "engineer">>),
              Some(UrlNoisy), Some(<<"google">>), Some(<<"Remote">>),
              Some(<<"python">>), None, None, Some(DateText(2, Some(1))),
              None, None, None),
     RawEntry(Some(<<"lever">>), Some(<<"Manager">>), Some(UrlOther),
              Some(<<"Google">>), None, None, None, None, None, None,
              Some(EpochMs(0)), None),
     RawEntry(Some(<<"indeed_rss">>), Some(<<"Engineer", " ", "at", " ", "Google">>),
              None, None, None, None, None, Some(BadDateText), None, None,
              None, None)}

RawBatches == SeqsUpTo(RawSamples, MaxRaw)

RECURSIVE TagAll(_, _)
TagAll(jobs, keywords) ==
    IF jobs = <<>> THEN <<>>
    ELSE <<tag_job(Head(jobs), keywords)>> \o TagAll(Tail(jobs), keywords)

\* what main does with the jobs that are fresh: deduplicate, upsert
Persist(raw_items, normalized, fresh, unique, clock) ==
    \E r \in {RunUpsert(table, clock, unique, [i \in DOMAIN unique |-> 0], 0)} :
        /\ table' = r.table
        /\ ever' = ever \cup JobIds(unique)
        /\ lastCall' = [op |-> "pipeline", jobs |-> unique, fault |-> 0,
                        raised |-> FALSE, inserted |-> r.inserted,
                        updated |-> r.updated, trace |-> r.trace,
                        raw |-> raw_items, normalized |-> normalized,
                        fresh |-> fresh, empty |-> table = {}]

\* main(): normalize_all, tag_job when keywords are configured,
\* filter_fresh, deduplicate_jobs, upsert_jobs.  Every stage that is left
\* with no job returns without touching the store
RunPipeline(raw_items, tick, keywords, max_age) ==
    /\ lastCall.op = "none"
    /\ wlock = 0
    /\ \A c \in DOMAIN conn : conn[c].pc = "idle"
    /\ \E n \in {normalize_all(raw_items, now, tick)} :
          /\ n.clock <= MaxTime
          /\ now' = n.clock
          /\ \E tagged \in {IF keywords # <<>> THEN TagAll(n.jobs, keywords)
                            ELSE n.jobs} :
             \E fresh \in {filter_fresh(tagged, max_age, n.clock)} :
             \E unique \in {deduplicate_jobs(fresh)} :
                Persist(raw_items, tagged, fresh, unique, n.clock)
    /\ UNCHANGED <<conn, wlock, dd>>

Pipeline ==
    \E raw_items \in RawBatches : \E tick \in {0, 1} :
    \E keywords \in KeywordLists :
        RunPipeline(raw_items, tick, keywords, MaxAge)

NextPipe == Pipeline \/ Return \/ Tick

SpecPipe == Init /\ [][NextPipe]_vars

\* the case of the end-to-end scenario: a run on an empty store whose two
\* raw entries, from different sources, both normalized and were fresh, with
\* the same job_id
TwoSourcesOneId ==
    /\ lastCall.op = "pipeline"
    /\ lastCall.empty
    /\ Len(lastCall.raw) = 2
    /\ Len(lastCall.fresh) = 2
    /\ lastCall.raw[1].source # lastCall.raw[2].source
    /\ lastCall.fresh[1].job_id = lastCall.fresh[2].job_id

\* exactly one row is stored under the job_id of job, and read back it has
\* the fetched_at and the tags of job
PersistedAs(job) ==
    /\ Cardinality(RowsOf(table, job.job_id)) = 1
    /\ Cardinality(table) = 1
    /\ \A r \in RowsOf(table, job.job_id) :
          /\ row_to_job(r).fetched_at = job.fetched_at
          /\ row_to_job(r).tags = job.tags

\* C3 (as claimed): in the end-to-end scenario exactly one record with the
\* job_id is persisted, and it carries the fetched_at and the tags of the
\* entry processed last in the batch.
C3_LastEntryPersisted == TwoSourcesOneId => PersistedAs(lastCall.fresh[2])

\* C3 (amended): in the end-to-end scenario exactly one record with the
\* job_id is persisted, and it carries the fetched_at and the tags of the
\* entry processed first in the batch; the later entry is dropped by
\* deduplicate_jobs.
C3_FirstEntryPersisted == TwoSourcesOneId => PersistedAs(lastCall.fresh[1])

\* C3 witness: the scenario has run with two entries that got different
\* fetched_at and different tags, and the first one is what is stored
C3_Witness ==
    /\ TwoSourcesOneId
    /\ lastCall.fresh[1].fetched_at # lastCall.fresh[2].fetched_at
    /\ lastCall.fresh[1].tags # lastCall.fresh[2].tags
    /\ lastCall.inserted = 1
    /\ PersistedAs(lastCall.fresh[1])

-----------------------------------------------------------------------------
(* filter_fresh called on its own, on a list of jobs *)

\* longest list handed to filter_fresh
MaxFreshLen == 2

\* one job without posted_at, and jobs posted at instants 0, 1 and 2, the
\* last one written in the +01:00 offset
FreshJobs ==
    {JobA1(None, Some(UtcDatetime(0))),
     JobA1(Some(UtcDatetime(0)), Some(UtcDatetime(0))),
     JobB(Some(UtcDatetime(1)), Some(UtcDatetime(0))),
     JobA2(Some(Datetime(2, 1)), Some(UtcDatetime(0)))}

\* filter_fresh(jobs, max_age_hours) at the present clock reading
FilterFresh(jobs, max_age_hours) ==
    /\ lastCall.op = "none"
    /\ lastCall' = [op |-> "filter_fresh", jobs |-> jobs,
                    max_age_hours |-> max_age_hours, at |-> now,
                    out |-> filter_fresh(jobs, max_age_hours, now)]
    /\ UNCHANGED <<table, now, ever, conn, wlock, dd>>

FilterSome ==
    \E jobs \in SeqsUpTo(FreshJobs, MaxFreshLen) :
    \E max_age_hours \in 1..MaxAge :
        FilterFresh(jobs, max_age_hours)

NextFresh == FilterSome \/ Return \/ Tick

SpecFresh == Init /\ [][NextFresh]_vars

\* positions of the jobs that have a posted_at at or after the cutoff
FreshPositions(jobs, at, max_age_hours) ==
    {i \in DOMAIN jobs :
        /\ jobs[i].posted_at # None
        /\ jobs[i].posted_at[1].utc >= at - max_age_hours}

\* C11: filter_fresh returns, in input order, exactly the jobs whose
\* posted_at is not null and is at or after now - max_age_hours as instants:
\* a job posted exactly max_age_hours ago is kept, an older one is dropped,
\* and a job without posted_at is never returned.
C11_FilterFreshExact ==
    lastCall.op = "filter_fresh" =>
        LET F == FreshPositions(lastCall.jobs, lastCall.at,
                                lastCall.max_age_hours)
        IN  /\ Len(lastCall.out) = Cardinality(F)
            /\ \A k \in DOMAIN lastCall.out :
                  lastCall.out[k] = lastCall.jobs[KthOf(F, k)]
            /\ \A k \in DOMAIN lastCall.out : lastCall.out[k].posted_at # None

\* C11 witness: a call kept a job posted exactly max_age_hours before the
\* clock reading and dropped the job in front of it, posted one hour earlier
C11_Witness ==
    /\ lastCall.op = "filter_fresh"
    /\ Len(lastCall.jobs) = 2
    /\ Len(lastCall.out) = 1
    /\ lastCall.out[1] = lastCall.jobs[2]
    /\ lastCall.jobs[2].posted_at[1].utc = lastCall.at - lastCall.max_age_hours
    /\ lastCall.jobs[1].posted_at # None
    /\ lastCall.jobs[1].posted_at[1].utc
          = lastCall.at - lastCall.max_age_hours - 1

-----------------------------------------------------------------------------
(* load_recent: the windowed read by fetched_at *)

\* rank of an offset suffix in the order of its text: "+00:00" < "+01:00"
\* < ... < "-01:00" < "-02:00" < ..., since "+" sorts before "-"
OffsetRank(off) == IF off >= 0 THEN off ELSE DayHours - off

\* text1 >= text2 for two stored ISO texts, as the TEXT column compares them:
\* character by character, the wall-clock digits first, then the offset suffix
TextGE(a, b) ==
    \/ a.wall > b.wall
    \/ a.wall = b.wall /\ OffsetRank(a.off) >= OffsetRank(b.off)

SelectAll(tbl, cutoff_str) == tbl

\* SELECT * FROM jobs WHERE fetched_at >= ?
SelectSince(tbl, cutoff_str) == {r \in tbl : TextGE(r.fetched_at[1], cutoff_str)}

\* ... ORDER BY fetched_at DESC: every order of the rows that is descending
\* in the text of fetched_at (rows with equal text come in either order)
OrderedDesc(rows) ==
    {s \in [1..Cardinality(rows) -> rows] :
        /\ \A i, j \in DOMAIN s : i # j => s[i] # s[j]
        /\ \A i, j \in DOMAIN s : i < j => TextGE(s[i].fetched_at[1], s[j].fetched_at[1])}

\* the loop over the fetched rows: each becomes a Job
RowsToJobs(rows) == [i \in DOMAIN rows |-> row_to_job(rows[i])]

\* longest window asked for
MaxSince == 2

\* load_recent(path, since_hours) with no writer active; it may follow an
\* upsert_jobs call directly, as in the pipeline, and then remembers what
\* that call wrote
LoadRecent(since_hours) ==
    /\ lastCall.op \in {"none", "upsert"}
    /\ wlock = 0
    /\ \E cutoff_str \in {isoformat(UtcDatetime(now - since_hours))} :
       \E rows \in OrderedDesc(SelectSince(table, cutoff_str)) :
           lastCall' = [op |-> "load_recent", since_hours |-> since_hours,
                        at |-> now,
                        written |-> IF lastCall.op = "upsert" /\ ~lastCall.raised
                                    THEN lastCall.trace ELSE <<>>,
                        out |-> RowsToJobs(rows)]
    /\ UNCHANGED <<table, now, ever, conn, wlock, dd>>

LoadSome == \E since_hours \in 1..MaxSince : LoadRecent(since_hours)

NextStore == Upsert \/ LoadSome \/ Return \/ Tick

SpecStore == Init /\ [][NextStore]_vars

\* C12 (as claimed): no job in the result of load_recent has posted_at =
\* null, whatever was upserted before and whatever the window.
C12_RecentNeverNullPosted ==
    lastCall.op = "load_recent" =>
        \A k \in DOMAIN lastCall.out : lastCall.out[k].posted_at # None

\* rows whose fetched_at instant is at or after the instant cutoff
RowsSince(tbl, cutoff) ==
    {r \in tbl : fromisoformat(r.fetched_at[1]).utc >= cutoff}

\* C13 (as claimed): load_recent(since_hours) returns exactly the stored jobs
\* whose fetched_at instant is at or after now - since_hours, each once, in
\* descending order of that instant, in whatever offset the text of
\* fetched_at was stored.
C13_RecentByInstant ==
    lastCall.op = "load_recent" =>
        LET out  == lastCall.out
            want == RowsSince(table, lastCall.at - lastCall.since_hours)
        IN  /\ Len(out) = Cardinality(want)
            /\ {out[k].job_id : k \in DOMAIN out} = {r.job_id : r \in want}
            /\ \A i, j \in DOMAIN out :
                   i < j => out[i].fetched_at[1].utc >= out[j].fetched_at[1].utc

\* two optional datetimes are both absent or the same instant
SameInstant(x, y) ==
    IF x = None \/ y = None THEN x = y ELSE DtEqual(x[1], y[1])

\* the steps of the preceding upsert_jobs call that inserted a job carrying
\* its own fetched_at which no later step of the call touched
InsertedSteps ==
    IF lastCall.op # "load_recent" THEN {}
    ELSE {i \in DOMAIN lastCall.written :
            /\ lastCall.written[i].did = "inserted"
            /\ lastCall.written[i].job.fetched_at # None
            /\ \A j \in DOMAIN lastCall.written :
                   j > i => lastCall.written[j].job.job_id # lastCall.written[i].job.job_id}

\* C14 (as claimed): a Job inserted by upsert_jobs and read back by
\* load_recent has the same job_id, source, title, company, location, remote,
\* url, description, posted_at, fetched_at, tags and raw as the Job written.
C14_ReadBackSameFields ==
    \A i \in InsertedSteps : \A k \in DOMAIN lastCall.out :
        LET job == lastCall.written[i].job
            got == lastCall.out[k]
        IN  got.job_id = job.job_id =>
                /\ \A f \in {"job_id", "source", "title", "company", "location",
                             "remote", "url", "description", "tags", "raw"} :
                       got[f] = job[f]
                /\ SameInstant(got.posted_at, job.posted_at)
                /\ SameInstant(got.fetched_at, job.fetched_at)

-----------------------------------------------------------------------------
(* canonicalize_url on its own *)

\* most fields in a query string
MaxQueryFields == 2

UrlSchemes == {<<>>, <<"https", ":">>, <<"HTTPS", ":">>, <<"id", ":">>}

UrlHosts == {<<"/", "/", "x.com">>, <<"/", "/", "X.com">>}

UrlPaths ==
    {<<>>, <<"/">>, <<"/", "jobs", "/", "1">>, <<"/", "jobs", "/", "1", "/">>,
     <<"/", "jobs", "/", "/">>, <<"/", "jobs", ";", "p">>,
     <<"/", "jobs", ";", "/">>, <<"/", "jobs", "/", ";", "p">>}

QueryFields ==
    {<<"id", "=", "1">>, <<"id", "=", "2">>, <<"utm_x", "=", "li">>,
     <<"Ref", "=", "li">>, <<"f", "=">>, <<"q", "=", "a", "+", "%2b">>}

UrlQueries ==
    {IF fs = <<>> THEN <<>> ELSE <<"?">> \o join(fs, "&") :
        fs \in SeqsUpTo(QueryFields, MaxQueryFields)}

UrlFragments == {<<>>, <<"#", "f">>}

Urls ==
    {s \o h \o p \o q \o f :
        s \in UrlSchemes, h \in UrlHosts, p \in UrlPaths, q \in UrlQueries,
        f \in UrlFragments}

\* canonicalize_url(url), and canonicalize_url of what it returned
CanonicalizeUrl(url) ==
    /\ lastCall.op = "none"
    /\ \E once \in {canonicalize_url(url)} :
           lastCall' = [op |-> "canonicalize_url", url |-> url, once |-> once,
                        twice |-> canonicalize_url(once)]
    /\ UNCHANGED <<table, now, ever, conn, wlock, dd>>

CanonicalizeSome == lastCall.op = "none" /\ \E url \in Urls : CanonicalizeUrl(url)

NextUrl == CanonicalizeSome \/ Return

SpecUrl == Init /\ [][NextUrl]_vars

\* C15 (as claimed): canonicalize_url(canonicalize_url(u)) =
\* canonicalize_url(u) for every URL u.
C15_CanonicalizeIdempotent ==
    lastCall.op = "canonicalize_url" => lastCall.twice = lastCall.once

\* the (name, value) pair of one query field, a field without a value
\* included
FieldPair(nv) ==
    LET e == find(nv, "=", 1) IN
    IF e = 0 THEN <<unquote_plus(nv), <<>> >>
    ELSE <<unquote_plus(SubSeq(nv, 1, e - 1)),
           unquote_plus(SubSeq(nv, e + 1, Len(nv)))>>

\* all (name, value) pairs of the query string of url
QueryPairs(url) ==
    LET qs == urlparse(strip(url)).query
        fs == split(qs, "&")
    IN  IF qs = <<>> THEN {}
        ELSE {FieldPair(fs[i]) : i \in {j \in DOMAIN fs : fs[j] # <<>>}}

\* C16 (as claimed): the query parameters of canonicalize_url(u) are exactly
\* those of u whose name is not a tracking parameter (names compared without
\* case), a parameter with an empty value included.
C16_OnlyTrackingRemoved ==
    lastCall.op = "canonicalize_url" =>
        QueryPairs(lastCall.once) =
            {p \in QueryPairs(lastCall.url) : ~IsTracking(p[1])}

-----------------------------------------------------------------------------
(* make_job_id on its own *)

IdCompanies == {<<"Google">>, <<" ", "google", " ">>, <<"google", "|", "engineer">>}

IdTitles ==
    {<<"Engineer">>, <<" ", "engineer">>, <<"Manager">>,
     <<"engineer", "|", "manager">>}

\* what identifies a posting's URL: its path and its own query
UrlBases ==
    {[path |-> <<"/", "jobs", "/", "1">>, query |-> <<>>],
     [path |-> <<"/", "jobs", "/", "1">>, query |-> <<"id", "=", "1">>],
     [path |-> <<"/", "jobs", ";">>, query |-> <<>>]}

\* what does not: host case, a trailing slash, a fragment, a tracking
\* parameter
UrlVariations ==
    {[host |-> "x.com", slash |-> FALSE, frag |-> FALSE, track |-> <<>>],
     [host |-> "X.com", slash |-> FALSE, frag |-> TRUE, track |-> <<>>],
     [host |-> "x.com", slash |-> TRUE, frag |-> FALSE, track |-> <<>>],
     [host |-> "x.com", slash |-> FALSE, frag |-> FALSE,
      track |-> <<"Ref", "=", "li">>]}

\* the text of the URL with base b in variation v
UrlOf(b, v) ==
    <<"https", ":", "/", "/", v.host>> \o b.path
    \o (IF v.slash THEN <<"/">> ELSE <<>>)
    \o (IF v.track # <<>> /\ b.query # <<>> THEN <<"?">> \o v.track \o <<"&">> \o b.query
        ELSE IF v.track # <<>> THEN <<"?">> \o v.track
        ELSE IF b.query # <<>> THEN <<"?">> \o b.query
        ELSE <<>>)
    \o (IF v.frag THEN <<"#", "f">> ELSE <<>>)

IdInputs ==
    {[company |-> c, title |-> t, base |-> b, url |-> UrlOf(b, v)] :
        c \in IdCompanies, t \in IdTitles, b \in UrlBases, v \in UrlVariations}

\* make_job_id for two postings, and once more for the first
MakeJobIds(a, b) ==
    /\ lastCall.op = "none"
    /\ lastCall' = [op |-> "make_job_id", a |-> a, b |-> b,
                    id_a  |-> make_job_id(a.company, a.title, a.url),
                    id_b  |-> make_job_id(b.company, b.title, b.url),
                    again |-> make_job_id(a.company, a.title, a.url)]
    /\ UNCHANGED <<table, now, ever, conn, wlock, dd>>

MakeSome == lastCall.op = "none" /\ \E a \in IdInputs : \E b \in IdInputs : MakeJobIds(a, b)

NextId == MakeSome \/ Return

SpecId == Init /\ [][NextId]_vars

\* two texts differ at most in letter case and surrounding whitespace
SameText(x, y) == lower(strip(x)) = lower(strip(y))

\* C17 (as claimed): two calls of make_job_id whose companies and titles
\* differ only in letter case or surrounding whitespace and whose URLs differ
\* only in host case, a trailing slash on the path, the fragment or tracking
\* parameters return the same id, and a repeated call returns the same id.
C17_IdStable ==
    lastCall.op = "make_job_id" =>
        /\ lastCall.again = lastCall.id_a
        /\ (/\ SameText(lastCall.a.company, lastCall.b.company)
            /\ SameText(lastCall.a.title, lastCall.b.title)
            /\ lastCall.a.base = lastCall.b.base)
           => lastCall.id_a = lastCall.id_b

\* the triple a job_id stands for
IdTriple(x) == <<lower(strip(x.company)), lower(strip(x.title)), canonicalize_url(x.url)>>

\* C18 (as claimed): two triples (lower-cased trimmed company, lower-cased
\* trimmed title, canonical URL) that differ in a component have different
\* job_ids, also when a company or title contains the delimiter.
C18_IdUniquePerTriple ==
    lastCall.op = "make_job_id" =>
        (IdTriple(lastCall.a) # IdTriple(lastCall.b) => lastCall.id_a # lastCall.id_b)

-----------------------------------------------------------------------------
(* normalize_all on its own *)

\* longest batch of raw entries
MaxNorm == 2

\* an RSS, a Greenhouse and a Lever entry that normalize; entries without
\* url, with a blank title, a blank url, a blank source; and entries on
\* which .strip() raises; and entries of each source whose timestamp cannot
\* be converted
NormSamples ==
    {RawEntry(Some(<<"linkedin_rss">>), Some(<<"Engineer">>), Some(UrlPlain),
              Some(<<"Google">>), None, None, Some(1), None, None, None, None,
              None),
     RawEntry(Some(<<"greenhouse">>), Some(<<" ", "engineer">>),
              Some(UrlNoisy), Some(<<"google">>), Some(<<"Remote">>),
              Some(<<"python">>), None, None, Some(DateText(2, Some(1))),
              None, None, None),
     RawEntry(Some(<<"lever">>), Some(<<"Manager">>), Some(UrlOther),
              Some(<<"Google">>), None, None, None, None, None, None,
              Some(EpochMs(0)), None),
     RawEntry(Some(<<"indeed_rss">>), Some(<<"Engineer", " ", "at", " ", "Google">>),
              None, None, None, None, None, Some(BadDateText), None, None,
              None, None),
     RawEntry(Some(<<"greenhouse">>), Some(<<" ">>), Some(UrlPlain),
              Some(<<"Google">>), None, None, None, None, None, None, None,
              None),
     RawEntry(Some(<<"lever">>), Some(<<"Manager">>), Some(<<" ", " ">>),
              Some(<<"Google">>), None, None, None, None, None, None,
              Some(EpochMs(0)), None),
     RawEntry(Some(<<" ">>), Some(<<"Engineer">>), Some(UrlPlain),
              Some(<<"Google">>), None, None, None, None, None, None, None,
              None),
     RawEntry(Some(<<"linkedin_rss">>), Some(PyNone), Some(UrlPlain),
              Some(<<"Google">>), None, None, None, None, None, None, None,
              None),
     RawEntry(Some(<<"greenhouse">>), Some(<<"Engineer">>), Some(UrlPlain),
              Some(PyNone), None, None, None, None, None, None, None, None),
     RawEntry(Some(<<"indeed_rss">>), Some(<<"Engineer">>), Some(UrlPlain),
              Some(<<"Google">>), None, None, None, Some(BadDateText), None,
              None, None, None),
     RawEntry(Some(<<"greenhouse">>), Some(<<"Engineer">>), Some(UrlPlain),
              Some(<<"Google">>), None, None, None, None, Some(BadDateText),
              None, None, None),
     RawEntry(Some(<<"lever">>), Some(<<"Manager">>), Some(UrlOther),
              Some(<<"Google">>), None, None, None, None, None, None,
              Some(EpochText), None),
     RawEntry(Some(<<"lever">>), Some(<<"Manager">>), Some(UrlOther),
              Some(<<"Google">>), None, None, None, None, None, None,
              Some(EpochYearOut), None),
     RawEntry(Some(<<"lever">>), Some(<<"Manager">>), Some(UrlOther),
              Some(<<"Google">>), None, None, None, None, None, None,
              Some(EpochTimeOut), None)}

NormBatches == SeqsUpTo(NormSamples, MaxNorm)

\* normalize_all(raw_items), the clock moving by tick per entry
NormalizeAll(raw_items, tick) ==
    /\ lastCall.op = "none"
    /\ \E n \in {normalize_all(raw_items, now, tick)} :
          /\ n.clock <= MaxTime
          /\ now' = n.clock
          /\ lastCall' = [op |-> "normalize_all", raw |-> raw_items,
                          tick |-> tick, at |-> now, raised |-> n.raised,
                          out |-> n.jobs]
    /\ UNCHANGED <<table, ever, conn, wlock, dd>>

NormalizeSome == lastCall.op = "none" /\ \E raw_items \in NormBatches : \E tick \in {0, 1} : NormalizeAll(raw_items, tick)

NextNorm == NormalizeSome \/ Return \/ Tick

SpecNorm == Init /\ [][NextNorm]_vars

\* source, title or url is missing or empty after trimming
Rejected(e) ==
    \/ strip(Get(e.source)) = <<>>
    \/ strip(Get(e.title)) = <<>>
    \/ strip(Get(e.url)) = <<>>

\* what normalize_all makes of entry i of the last batch when it is given
\* that entry alone, at the clock reading the entry had in the batch
Alone(i) ==
    normalize_all(<<lastCall.raw[i]>>, lastCall.at + (i - 1) * lastCall.tick, lastCall.tick)

\* C19: an entry whose source, title or url is missing or empty after
\* trimming yields no Job, from the RSS, the Greenhouse or the Lever
\* normalizer and from normalize_all, which does not raise; a batch yields
\* no more Jobs than it has other entries.
C19_RejectedYieldNoJob ==
    lastCall.op = "normalize_all" =>
        /\ ~lastCall.raised
        /\ Len(lastCall.out)
              <= Cardinality({i \in DOMAIN lastCall.raw : ~Rejected(lastCall.raw[i])})
        /\ \A i \in DOMAIN lastCall.raw :
              Rejected(lastCall.raw[i]) =>
                 /\ Alone(i).jobs = <<>>
                 /\ ~Alone(i).raised
                 /\ ~EntryRaises(lastCall.raw[i]) =>
                       /\ normalize_rss_entry(lastCall.raw[i], lastCall.at) = None
                       /\ normalize_greenhouse(lastCall.raw[i], lastCall.at) = None
                       /\ normalize_lever(lastCall.raw[i], lastCall.at) = None

\* normalize_all was given a Greenhouse entry with a blank title and then
\* the RSS entry without url, and returned no Job
C19_Witness ==
    /\ lastCall.op = "normalize_all"
    /\ Len(lastCall.raw) = 2
    /\ lastCall.raw[1].source = Some(<<"greenhouse">>)
    /\ lastCall.raw[1].title = Some(<<" ">>)
    /\ lastCall.raw[2].url = None
    /\ lastCall.out = <<>>

RECURSIVE AloneJobs(_)
AloneJobs(i) ==
    IF i > Len(lastCall.raw) THEN <<>> ELSE Alone(i).jobs \o AloneJobs(i + 1)

\* an entry that normalize_all turns into a Job when given it alone
Normalizes(e) == normalize_all(<<e>>, 0, 0).jobs # <<>>

\* the jobs without the clock reading they carry
WithoutFetched(jobs) == [i \in DOMAIN jobs |-> [jobs[i] EXCEPT !.fetched_at = None]]

\* C20: normalize_all does not raise; its output is, in input order, the
\* Jobs that each entry yields on its own; and the batch without its
\* malformed entries yields the same Jobs (up to fetched_at, the time of
\* normalization).
C20_ContinueOnError ==
    lastCall.op = "normalize_all" =>
        /\ ~lastCall.raised
        /\ lastCall.out = AloneJobs(1)
        /\ WithoutFetched(lastCall.out) =
              WithoutFetched(normalize_all(SelectSeq(lastCall.raw, Normalizes),
                                           lastCall.at, lastCall.tick).jobs)

\* normalize_all was given an entry on which .strip() raises and then one
\* that normalizes, and returned the Job of the second
C20_Witness ==
    /\ lastCall.op = "normalize_all"
    /\ Len(lastCall.raw) = 2
    /\ EntryRaises(lastCall.raw[1])
    /\ Normalizes(lastCall.raw[2])
    /\ Len(lastCall.out) = 1
    /\ ~lastCall.raised

\* the entry has its source, title, url and company as texts, the first
\* three not empty after trimming
HasRequired(e) ==
    /\ ~Rejected(e)
    /\ \A f \in {"source", "title", "url", "company"} : e[f] # Some(PyNone)

\* the timestamps the entry's normalizer looks at are there and none of them
\* can be converted
BadTimestamp(e) ==
    IF lower(strip(Get(e.source))) = <<"lever">>
    THEN e.createdAt # None
         /\ (e.createdAt[1].type # "number" \/ e.createdAt[1].range # "ok")
    ELSE IF lower(strip(Get(e.source))) = <<"greenhouse">>
    THEN /\ e.updated_at # None \/ e.created_at # None
         /\ e.updated_at # None => ~e.updated_at[1].ok
         /\ e.created_at # None => ~e.created_at[1].ok
    ELSE e.published_parsed = None /\ e.published # None /\ ~e.published[1].ok

\* C21 (as claimed): an entry with non-empty source, title and url whose
\* timestamp cannot be converted still yields a Job; the Job has posted_at =
\* null and filter_fresh drops it.
C21_BadTimestampKeepsEntry ==
    lastCall.op = "normalize_all" =>
        \A i \in DOMAIN lastCall.raw :
            (HasRequired(lastCall.raw[i]) /\ BadTimestamp(lastCall.raw[i])) =>
                /\ Len(Alone(i).jobs) = 1
                /\ Alone(i).jobs[1].posted_at = None
                /\ filter_fresh(Alone(i).jobs, MaxAge, Alone(i).clock) = <<>>

-----------------------------------------------------------------------------
(* normalize_rss_entry on entries without a company *)

\* the sides of a title: with a job word, without one, and of two words
TitleParts ==
    {<<"Engineer">>, <<"Google">>, <<"python">>, <<"Python", " ", "Manager">>}

TitleSeparators == {<<" ", "at", " ">>, <<" ", "-", " ">>, <<" ", "|", " ">>}

Titles ==
    TitleParts \cup {p1 \o sep \o p2 : p1 \in TitleParts, sep \in TitleSeparators, p2 \in TitleParts}

\* no company key, an empty company, a blank company
NoCompanies == {None, Some(<<>>), Some(<<" ">>)}

CompanyEntries ==
    {RawEntry(Some(<<"linkedin_rss">>), Some(title), Some(UrlPlain), company,
              None, None, None, None, None, None, None, None) :
        title \in Titles, company \in NoCompanies}

\* normalize_rss_entry(entry)
NormalizeRss(entry) ==
    /\ lastCall.op = "none"
    /\ lastCall' = [op |-> "normalize_rss_entry", entry |-> entry, at |-> now,
                    out |-> normalize_rss_entry(entry, now)]
    /\ UNCHANGED <<table, now, ever, conn, wlock, dd>>

NormalizeRssSome == lastCall.op = "none" /\ \E entry \in CompanyEntries : NormalizeRss(entry)

NextCompany == NormalizeRssSome \/ Return \/ Tick

SpecCompany == Init /\ [][NextCompany]_vars

\* the splits of title on sep: the trimmed sides of every occurrence
SplitsOn(title, sep) ==
    {<<strip(SubSeq(title, 1, at - 1)), strip(SubSeq(title, at + Len(sep), Len(title)))>> :
        at \in {i \in 1..Len(title) : find_sub(title, sep, i) = i}}

\* the companies the title offers: the side without a job word of a split
\* on " at " or " - " whose other side has one
OfferedCompanies(title) ==
    {IF HasJobWord(s[1]) THEN s[2] ELSE s[1] :
        s \in {x \in SplitsOn(title, <<" ", "at", " ">>) \cup SplitsOn(title, <<" ", "-", " ">>) :
                  HasJobWord(x[1]) # HasJobWord(x[2])}}

\* C22 (as claimed): for an entry without a company the Job's company is a
\* side of a split of the title on " at " or " - " of which exactly the
\* other side contains a job word, and "Unknown" in every other case.
C22_CompanyFromTitle ==
    (lastCall.op = "normalize_rss_entry" /\ lastCall.out # None) =>
        \/ lastCall.out[1].company = <<"Unknown">>
        \/ lastCall.out[1].company \in OfferedCompanies(strip(lastCall.entry.title[1]))

-----------------------------------------------------------------------------
(* _parse_greenhouse_posted_at on its own *)

\* widest distance of a timestamp from the start and from the 24-hour mark
MaxGap == 2

\* date texts: naive, east and west of UTC, around 0 and around 24 hours
GhDateTexts ==
    {DateText(wall, tz) :
        wall \in (0..MaxGap) \cup (DayHours..(DayHours + MaxGap)),
        tz \in {None, Some(1), Some(0 - 1)}}

\* a timestamp key: absent, unparsable, or a date text
GhTimestamps == {None, Some(BadDateText)} \cup {Some(d) : d \in GhDateTexts}

GhEntry(updated_at, created_at) == RawEntry(Some(<<"greenhouse">>), Some(<<"Engineer">>), Some(UrlPlain), Some(<<"Google">>), None, None, None, None, updated_at, created_at, None, None)

\* _parse_greenhouse_posted_at(raw)
ParseGreenhouse(raw) ==
    /\ lastCall.op = "none"
    /\ lastCall' = [op |-> "_parse_greenhouse_posted_at", raw |-> raw,
                    out |-> _parse_greenhouse_posted_at(raw)]
    /\ UNCHANGED <<table, now, ever, conn, wlock, dd>>

ParseGreenhouseSome == lastCall.op = "none" /\ \E u \in GhTimestamps : \E c \in GhTimestamps : ParseGreenhouse(GhEntry(u, c))

NextGh == ParseGreenhouseSome \/ Return

SpecGh == Init /\ [][NextGh]_vars

\* a timestamp key holds a text that parses
Parsable(o) == o # None /\ o[1].ok

\* the instant a date text names, a text without offset being in UTC
InstantOf(text) == text.wall - (IF text.tz = None THEN 0 ELSE text.tz[1])

-----------------------------------------------------------------------------
(* tag_job on its own *)

\* longest keyword list
MaxKeywords == 2

\* keywords: in several cases, padded, blank, and one that matches nothing
TagKeywords ==
    {<<"Remote">>, <<" ", "engineer">>, <<"Engineer">>, <<"google">>,
     <<" ">>, <<"python">>}

\* jobs with and without location, with and without tags from before
TagJobs ==
    {JobA1(None, Some(UtcDatetime(0))), JobA2(None, Some(UtcDatetime(0))),
     JobB(None, Some(UtcDatetime(0))),
     [JobB(None, Some(UtcDatetime(0))) EXCEPT !.location = Some(<<"Google", " ", "Remote">>),
                                              !.tags = << <<"manager">> >>]}

\* tag_job(job, keywords)
TagJob(job, keywords) ==
    /\ lastCall.op = "none"
    /\ lastCall' = [op |-> "tag_job", job |-> job, keywords |-> keywords,
                    out |-> tag_job(job, keywords)]
    /\ UNCHANGED <<table, now, ever, conn, wlock, dd>>

TagSome == lastCall.op = "none" /\ \E job \in TagJobs : \E keywords \in SeqsUpTo(TagKeywords, MaxKeywords) : TagJob(job, keywords)

NextTag == TagSome \/ Return

SpecTag == Init /\ [][NextTag]_vars

\* the keywords as they are matched: lower-cased and trimmed
Trimmed(keywords) == [i \in DOMAIN keywords |-> strip(lower(keywords[i]))]

\* the positions of the keyword list whose keyword is not blank, is the
\* first of its kind and occurs in text but in none of the texts before
MatchPositions(kws, text, before) ==
    {i \in DOMAIN kws :
        /\ kws[i] # <<>>
        /\ \A k \in 1..(i - 1) : kws[k] # kws[i]
        /\ contains(lower(text), kws[i])
        /\ \A b \in before : ~contains(lower(b), kws[i])}

\* the keywords at the positions S, in list order
PickedAt(kws, S) == [k \in 1..Cardinality(S) |-> kws[KthOf(S, k)]]

\* C24: the tags of tag_job(job, keywords) are the distinct lower-cased
\* trimmed keywords found in the title, then those found in the company and
\* not in the title, then those found in the location only, each group in
\* keyword-list order; no tag occurs twice; every other field is the job's;
\* the tags the job had before play no part.
C24_TagsRecomputed ==
    lastCall.op = "tag_job" =>
        LET job == lastCall.job
            kws == Trimmed(lastCall.keywords)
            loc == IF job.location = None THEN <<>> ELSE job.location[1]
            g1  == MatchPositions(kws, job.title, {})
            g2  == MatchPositions(kws, job.company, {job.title})
            g3  == MatchPositions(kws, loc, {job.title, job.company})
            out == lastCall.out
        IN  /\ out.tags = PickedAt(kws, g1) \o PickedAt(kws, g2) \o PickedAt(kws, g3)
            /\ \A i, j \in DOMAIN out.tags : i # j => out.tags[i] # out.tags[j]
            /\ [out EXCEPT !.tags = job.tags] = job

\* a keyword found in the location only came first in the list and last in
\* the tags, which replaced the tag the job had before
C24_Witness ==
    /\ lastCall.op = "tag_job"
    /\ lastCall.keywords = << <<"Remote">>, <<"Engineer">> >>
    /\ lastCall.job.tags = << <<"python">> >>
    /\ lastCall.out.tags = << <<"engineer">>, <<"remote">> >>

-----------------------------------------------------------------------------
(* app/core/keywords.py: score_job *)

\* hours in timedelta(hours=6)
SixHours == 6

\* score_job counting a posting exactly six hours before the fetch as recent
ScoreInclusive(job) ==
    (IF job.tags # <<>> THEN 3 ELSE 0)
    + (IF job.remote THEN 2 ELSE 0)
    + (IF /\ job.posted_at # None
          /\ job.fetched_at # None
          /\ astimezone_utc(job.fetched_at[1]).utc
                - astimezone_utc(job.posted_at[1]).utc <= SixHours
       THEN 1 ELSE 0)

\* score_job: 3 for tags, 2 for remote, 1 for a posting less than six hours
\* before the fetch
score_job(job) ==
    (IF job.tags # <<>> THEN 3 ELSE 0)
    + (IF job.remote THEN 2 ELSE 0)
    + (IF /\ job.posted_at # None
          /\ job.fetched_at # None
          /\ astimezone_utc(job.fetched_at[1]).utc
                - astimezone_utc(job.posted_at[1]).utc < SixHours
       THEN 1 ELSE 0)

\* latest posted_at of the jobs that are scored
MaxPosted == 1

ScorePosted == {None} \cup {Some(Datetime(t, o)) : t \in 0..MaxPosted, o \in {0, 1}}

ScoreFetched ==
    {None} \cup {Some(Datetime(t, o)) : t \in (SixHours - 1)..(SixHours + MaxPosted), o \in {0, 0 - 1}}

\* jobs that differ in what is scored, and in the rest
ScoreJobs ==
    {[base EXCEPT !.tags = tags, !.remote = remote, !.posted_at = posted_at, !.fetched_at = fetched_at] :
        base \in {JobA1(None, None), JobA2(None, None)},
        tags \in {<<>>, << <<"python">> >>}, remote \in BOOLEAN,
        posted_at \in ScorePosted, fetched_at \in ScoreFetched}

\* score_job(job)
ScoreJob(job) ==
    /\ lastCall.op = "none"
    /\ lastCall' = [op |-> "score_job", job |-> job, out |-> score_job(job)]
    /\ UNCHANGED <<table, now, ever, conn, wlock, dd>>

ScoreSome == lastCall.op = "none" /\ \E job \in ScoreJobs : ScoreJob(job)

NextScore == ScoreSome \/ Return

SpecScore == Init /\ [][NextScore]_vars

\* C25: score_job(job) = 3*[tags non-empty] + 2*[remote] + 1*[posted_at and
\* fetched_at present and fetched_at - posted_at < 6 hours], whatever the
\* other fields are, and lies in 0..6.
C25_ScoreFormula ==
    lastCall.op = "score_job" =>
        LET job    == lastCall.job
            recent == /\ job.posted_at # None
                      /\ job.fetched_at # None
                      /\ job.fetched_at[1].utc - job.posted_at[1].utc < 6
        IN  /\ lastCall.out = 3 * (IF Len(job.tags) > 0 THEN 1 ELSE 0)
                              + 2 * (IF job.remote THEN 1 ELSE 0)
                              + (IF recent THEN 1 ELSE 0)
            /\ lastCall.out \in 0..6

\* a remote job with tags, posted exactly six hours before it was fetched,
\* the two instants written in different offsets, scored 5
C25_Witness ==
    /\ lastCall.op = "score_job"
    /\ lastCall.job.tags # <<>>
    /\ lastCall.job.remote
    /\ lastCall.job.posted_at # None
    /\ lastCall.job.fetched_at # None
    /\ lastCall.job.posted_at[1].off # lastCall.job.fetched_at[1].off
    /\ lastCall.job.fetched_at[1].utc - lastCall.job.posted_at[1].utc = 6
    /\ lastCall.out = 5

-----------------------------------------------------------------------------
(* app/core/keywords.py: sort_jobs *)

\* datetime.min as an instant: before every posted_at
SentinelUtc == 0 - 1000000

\* get_sort_key: (-score, -posted_timestamp), the sentinel standing in for a
\* missing posted_at
get_sort_key(job) ==
    <<0 - score_job(job),
      0 - (IF job.posted_at # None THEN astimezone_utc(job.posted_at[1]).utc
           ELSE SentinelUtc)>>

\* tuple comparison k1 < k2
KeyLess(k1, k2) == k1[1] < k2[1] \/ (k1[1] = k2[1] /\ k1[2] < k2[2])

\* sorted() is stable: job goes behind every member of sorted_list whose key
\* is not greater than its own
RECURSIVE InsertByKey(_, _)
InsertByKey(sorted_list, job) ==
    IF sorted_list = <<>> THEN <<job>>
    ELSE IF KeyLess(get_sort_key(job), get_sort_key(Head(sorted_list)))
    THEN <<job>> \o sorted_list
    ELSE <<Head(sorted_list)>> \o InsertByKey(Tail(sorted_list), job)

RECURSIVE SortedByKey(_, _)
SortedByKey(jobs, acc) ==
    IF jobs = <<>> THEN acc
    ELSE SortedByKey(Tail(jobs), InsertByKey(acc, Head(jobs)))

\* sort_jobs ordering by score only
SortByScoreOnly(jobs) ==
    LET RECURSIVE Ins(_, _)
        Ins(s, job) ==
            IF s = <<>> THEN <<job>>
            ELSE IF score_job(job) > score_job(Head(s)) THEN <<job>> \o s
            ELSE <<Head(s)>> \o Ins(Tail(s), job)
        RECURSIVE Srt(_, _)
        Srt(js, acc) == IF js = <<>> THEN acc ELSE Srt(Tail(js), Ins(acc, Head(js)))
    IN  Srt(jobs, <<>>)

\* sort_jobs: a new list, the input sorted by key
sort_jobs(jobs) == IF jobs = <<>> THEN <<>> ELSE SortedByKey(jobs, <<>>)

\* longest list handed to sort_jobs
MaxSortLen == 3

\* jobs of score 0, 2 and 5, with and without posted_at, two of them with
\* the same score and the same posted_at instant
SortJobs ==
    {JobA1(None, Some(UtcDatetime(3))),
     JobA1(Some(UtcDatetime(1)), None),
     JobB(Some(Datetime(1, 1)), None),
     JobB(Some(UtcDatetime(2)), None),
     JobA2(None, Some(UtcDatetime(3))),
     [JobA1(Some(UtcDatetime(2)), None) EXCEPT !.remote = TRUE]}

\* sort_jobs(jobs); the caller's list is the same object before and after
SortJobsCall(jobs) ==
    /\ lastCall.op = "none"
    /\ lastCall' = [op |-> "sort_jobs", jobs |-> jobs, jobs_after |-> jobs,
                    out |-> sort_jobs(jobs)]
    /\ UNCHANGED <<table, now, ever, conn, wlock, dd>>

SortSome == lastCall.op = "none" /\ \E jobs \in SeqsUpTo(SortJobs, MaxSortLen) : SortJobsCall(jobs)

NextSort == SortSome \/ Return

SpecSort == Init /\ [][NextSort]_vars

\* job a has to come before job b: higher score, or equal score and a later
\* posted_at, or equal score and only a has a posted_at
Before(a, b) ==
    \/ score_job(a) > score_job(b)
    \/ /\ score_job(a) = score_job(b)
       /\ a.posted_at # None
       /\ b.posted_at = None \/ a.posted_at[1].utc > b.posted_at[1].utc

\* C26: sort_jobs returns a permutation of its input, which it leaves as it
\* was, ordered by score descending, then posted_at descending with the jobs
\* without posted_at last; jobs equal on both keys keep their input order.
C26_SortedStablePermutation ==
    lastCall.op = "sort_jobs" =>
        LET jobs == lastCall.jobs
            out  == lastCall.out
        IN  /\ lastCall.jobs_after = jobs
            /\ Len(out) = Len(jobs)
            /\ \E p \in [DOMAIN jobs -> DOMAIN jobs] :
                  /\ \A i, j \in DOMAIN jobs : i # j => p[i] # p[j]
                  /\ \A i \in DOMAIN jobs : out[i] = jobs[p[i]]
                  /\ \A i, j \in DOMAIN jobs :
                        i < j => /\ ~Before(jobs[p[j]], jobs[p[i]])
                                 /\ ~Before(jobs[p[i]], jobs[p[j]]) => p[i] < p[j]

\* three jobs of the same score came in the order: no posted_at, earlier,
\* later, and went out in the order: later, earlier, no posted_at
C26_Witness ==
    /\ lastCall.op = "sort_jobs"
    /\ Len(lastCall.jobs) = 3
    /\ \A i \in 1..3 : score_job(lastCall.jobs[i]) = 0
    /\ lastCall.jobs[1].posted_at = None
    /\ lastCall.jobs[2].posted_at # None
    /\ lastCall.jobs[3].posted_at # None
    /\ lastCall.jobs[3].posted_at[1].utc > lastCall.jobs[2].posted_at[1].utc
    /\ lastCall.out = <<lastCall.jobs[3], lastCall.jobs[2], lastCall.jobs[1]>>

-----------------------------------------------------------------------------
(* The stored fetched_at over a sequence of upsert_jobs calls *)

\* the instant of the fetched_at stored under id
FetchedOf(tbl, id) ==
    fromisoformat((CHOOSE r \in RowsOf(tbl, id) : TRUE).fetched_at[1]).utc

\* the instants of the fetched_at values one call brought for id
BroughtFor(call, id) ==
    {IncomingFetched(call.trace[i]).utc :
        i \in {k \in DOMAIN call.trace : call.trace[k].job.job_id = id}}

Greatest(S) == CHOOSE m \in S : \A x \in S : x <= m

\* C27: over sequential upsert calls the stored fetched_at of a job_id never
\* decreases, and a call leaves under each job_id of its batch the greatest
\* of the fetched_at stored before the call and the fetched_at values of the
\* batch for that job_id, in whatever order the batch lists them.  The table
\* starts empty, so after each call the stored fetched_at is the greatest
\* ever upserted for the job_id.
C27_FetchedAtGreatest ==
    [][ /\ \A r \in table : /\ RowsOf(table', r.job_id) # {}
                            /\ FetchedOf(table', r.job_id) >= FetchedOf(table, r.job_id)
        /\ lastCall'.op = "upsert" /\ ~lastCall'.raised =>
              \A id \in JobIds(lastCall'.jobs) :
                  /\ RowsOf(table', id) # {}
                  /\ FetchedOf(table', id) =
                        Greatest(BroughtFor(lastCall', id) \cup
                                 (IF RowsOf(table, id) # {}
                                  THEN {FetchedOf(table, id)} ELSE {}))
      ]_vars

\* C27 witness: one batch brought the same job_id twice, the later
\* fetched_at first, over a stored record older than both; the record holds
\* the later one
C27_Witness ==
    /\ lastCall.op = "upsert" /\ ~lastCall.raised
    /\ Len(lastCall.trace) = 2
    /\ lastCall.trace[1].job.job_id = lastCall.trace[2].job.job_id
    /\ lastCall.trace[1].before # None
    /\ StoredFetched(lastCall.trace[1]).utc < IncomingFetched(lastCall.trace[2]).utc
    /\ IncomingFetched(lastCall.trace[2]).utc < IncomingFetched(lastCall.trace[1]).utc
    /\ lastCall.trace[2].did = "skipped"
    /\ FetchedOf(table, lastCall.trace[1].job.job_id) = IncomingFetched(lastCall.trace[1]).utc

-----------------------------------------------------------------------------
(* main.py: one run of main() without --dry-run, to the ranked output *)

\* main(): normalize_all, tag_job when keywords are configured,
\* filter_fresh, deduplicate_jobs, upsert_jobs, load_recent(MAX_AGE_HOURS),
\* sort_jobs.  A stage left with no job returns before the store is read,
\* and the run then has no ranked output
Main(raw_items, tick, keywords, max_age) ==
    /\ lastCall.op = "none"
    /\ wlock = 0
    /\ \A c \in DOMAIN conn : conn[c].pc = "idle"
    /\ \E n \in {normalize_all(raw_items, now, tick)} :
          /\ n.clock <= MaxTime
          /\ now' = n.clock
          /\ \E unique \in {deduplicate_jobs(
                               filter_fresh(IF keywords # <<>>
                                            THEN TagAll(n.jobs, keywords)
                                            ELSE n.jobs,
                                            max_age, n.clock))} :
                IF unique = <<>>
                THEN /\ lastCall' = [op |-> "main", at |-> n.clock,
                                     max_age |-> max_age, unique |-> unique,
                                     ranked |-> FALSE, out |-> <<>>]
                     /\ UNCHANGED <<table, ever>>
                ELSE \E r \in {RunUpsert(table, n.clock, unique,
                                         [i \in DOMAIN unique |-> 0], 0)} :
                     \E rows \in OrderedDesc(SelectSince(r.table,
                                     isoformat(UtcDatetime(n.clock - max_age)))) :
                        /\ table' = r.table
                        /\ ever' = ever \cup JobIds(unique)
                        /\ lastCall' = [op |-> "main", at |-> n.clock,
                                        max_age |-> max_age, unique |-> unique,
                                        ranked |-> TRUE,
                                        out |-> sort_jobs(RowsToJobs(rows))]
    /\ UNCHANGED <<conn, wlock, dd>>

MainSome ==
    /\ lastCall.op = "none"
    /\ \E raw_items \in RawBatches : \E tick \in {0, 1} :
       \E keywords \in KeywordLists :
          Main(raw_items, tick, keywords, MaxAge)

NextMain == MainSome \/ Return \/ Tick

SpecMain == Init /\ [][NextMain]_vars

\* the jobs of the ranked output of the last run
Ranked == IF lastCall.op = "main" /\ lastCall.ranked
          THEN {lastCall.out[i] : i \in DOMAIN lastCall.out} ELSE {}

\* job is fresh at the time of the last run
FreshAtRun(job) ==
    /\ job.posted_at # None
    /\ is_fresh(job.posted_at[1], UtcDatetime(lastCall.at), lastCall.max_age)

\* C28, as stated: every job of the ranked output of a run is fresh at the
\* time of that run.
C28_OutputFresh == \A job \in Ranked : FreshAtRun(job)

\* C28, amended: every job of the ranked output of a run was fetched within
\* MAX_AGE_HOURS of the run's time and was fresh when it was fetched; every
\* job the run stored is in its output.
C28_OutputRecentlyFetched ==
    /\ \A job \in Ranked :
          /\ job.fetched_at # None /\ job.posted_at # None
          /\ job.fetched_at[1].utc >= lastCall.at - lastCall.max_age
          /\ job.fetched_at[1].utc <= lastCall.at
          /\ is_fresh(job.posted_at[1], job.fetched_at[1], lastCall.max_age)
    /\ lastCall.op = "main" /\ lastCall.ranked =>
          \A i \in DOMAIN lastCall.unique :
              \E job \in Ranked : job.job_id = lastCall.unique[i].job_id

\* C28 witness: the ranked output of a run holds a job that an earlier run
\* fetched and that is no longer fresh, next to one this run fetched
C28_Witness ==
    /\ \E job \in Ranked : ~FreshAtRun(job) /\ job.fetched_at[1].utc < lastCall.at
    /\ \E job \in Ranked : FreshAtRun(job) /\ job.fetched_at[1].utc = lastCall.at

-----------------------------------------------------------------------------
(* The two orders of deduplication and freshness filtering *)

\* main() of job-pulse: filter_fresh, then deduplicate_jobs
FreshThenUnique(jobs, max_age_hours, clock) ==
    deduplicate_jobs(filter_fresh(jobs, max_age_hours, clock))

\* process_jobs: deduplicate_jobs, then the freshness filter
process_jobs(jobs, max_age_hours, clock) ==
    filter_fresh(deduplicate_jobs(jobs), max_age_hours, clock)

\* longest list handed to the two orders
MaxOrderLen == 3

\* both orders on one list at the present clock reading
ProcessJobs(jobs, max_age_hours) ==
    /\ lastCall.op = "none"
    /\ lastCall' = [op |-> "process_jobs", jobs |-> jobs,
                    max_age_hours |-> max_age_hours, at |-> now,
                    fresh_first |-> FreshThenUnique(jobs, max_age_hours, now),
                    unique_first |-> process_jobs(jobs, max_age_hours, now)]
    /\ UNCHANGED <<table, now, ever, conn, wlock, dd>>

ProcessSome ==
    /\ lastCall.op = "none"
    /\ \E jobs \in SeqsUpTo(FreshJobs, MaxOrderLen) :
       \E max_age_hours \in 1..MaxAge :
          ProcessJobs(jobs, max_age_hours)

NextOrder == ProcessSome \/ Return \/ Tick

SpecOrder == Init /\ [][NextOrder]_vars

\* job passes the freshness filter of the last call
FreshInCall(job) ==
    /\ job.posted_at # None
    /\ is_fresh(job.posted_at[1], UtcDatetime(lastCall.at), lastCall.max_age_hours)

\* the first job of the list of the last call that carries id
FirstWithId(id) ==
    lastCall.jobs[CHOOSE i \in DOMAIN lastCall.jobs :
                     /\ lastCall.jobs[i].job_id = id
                     /\ \A k \in 1..(i - 1) : lastCall.jobs[k].job_id # id]

\* no job_id of the list has a first occurrence that is filtered out while
\* a later one is fresh
FirstOccurrenceDecides ==
    \A i \in DOMAIN lastCall.jobs :
        FreshInCall(lastCall.jobs[i]) => FreshInCall(FirstWithId(lastCall.jobs[i].job_id))

\* C29, as stated: deduplicate(filter_fresh(xs)) = filter_fresh(deduplicate(xs))
\* for every list xs, current time and max_age_hours.
C29_OrdersAgree ==
    lastCall.op = "process_jobs" => lastCall.fresh_first = lastCall.unique_first

\* C29, amended: filter_fresh(deduplicate(xs)) is deduplicate(filter_fresh(xs))
\* without the jobs whose job_id occurs first in xs on a job that is not
\* fresh; the two are equal exactly when no job_id has a fresh job behind a
\* first occurrence that is not fresh.
C29_OrdersAgreeOnFirstOccurrences ==
    lastCall.op = "process_jobs" =>
        /\ lastCall.unique_first =
              SelectSeq(lastCall.fresh_first,
                        LAMBDA job : FreshInCall(FirstWithId(job.job_id)))
        /\ lastCall.fresh_first = lastCall.unique_first <=> FirstOccurrenceDecides

\* C29 witness: a list with two jobs of one job_id and different posted_at,
\* the first fresh and the second not, on which both orders keep the first
C29_Witness ==
    /\ lastCall.op = "process_jobs"
    /\ Len(lastCall.jobs) >= 2
    /\ lastCall.jobs[1].job_id = lastCall.jobs[2].job_id
    /\ FreshInCall(lastCall.jobs[1])
    /\ ~FreshInCall(lastCall.jobs[2])
    /\ lastCall.jobs[2].posted_at # None
    /\ lastCall.fresh_first = lastCall.unique_first
    /\ lastCall.jobs[1] \in {lastCall.fresh_first[i] : i \in DOMAIN lastCall.fresh_first}

-----------------------------------------------------------------------------
(* A failing upsert_jobs call *)

\* C30: when an iteration of an upsert_jobs call raises, the call raises to
\* its caller after that iteration, having run each iteration at most once,
\* and the table is exactly as it was before the call, the inserts and
\* updates of the earlier iterations included.
C30_AllOrNothing ==
    [][ lastCall'.op = "upsert" /\ lastCall'.fault # 0 =>
            /\ lastCall'.raised
            /\ Len(lastCall'.trace) = lastCall'.fault
            /\ \A i \in DOMAIN lastCall'.trace : lastCall'.trace[i].job = lastCall'.jobs[i]
            /\ table' = table
      ]_vars

\* C30 witness: a call raised in its second iteration after the first had
\* inserted a job or changed a stored record, and the table does not hold
\* that write
C30_Witness ==
    /\ lastCall.op = "upsert" /\ lastCall.raised /\ lastCall.fault = 2
    /\ \/ /\ lastCall.trace[1].did = "inserted"
          /\ RowsOf(table, lastCall.trace[1].job.job_id) = {}
       \/ /\ lastCall.trace[1].did = "updated"
          /\ lastCall.trace[1].after # lastCall.trace[1].before
          /\ StoredRow(table, lastCall.trace[1].job.job_id) = lastCall.trace[1].before

====
